---- MODULE Spec2Model ----
(***************************************************************************)
(* The Orange Book equivalence registry of ob.py: the class-level          *)
(* dictionaries of EquivalenceClass, the instances they point to, the      *)
(* ingest operation (EquivalenceClass.add) and the JSON snapshot written   *)
(* by summarize and read back by load_summary.                             *)
(***************************************************************************)
EXTENDS Integers, Sequences, FiniteSets, TLC

VARIABLES
    registry,    \* the class attributes of EquivalenceClass plus its instances
    file,        \* contents of obdata/equivalents.json, NoFile when absent
    last,        \* the operation that ran last
    ret,         \* the instance returned by the last add
    branch,      \* which of add's five cases the last add took
    taken,       \* history: the cases the adds of this process have taken
    log,         \* rows ingested by this process, oldest first
    edges,       \* history: the rows whose keys this registry's classes come from
    allocated,   \* history: every eq_id given to an instance of this registry
    firstRet,    \* history: row -> instance returned when it was first ingested
    summarized,  \* history: the registry as it was when file was written
    fileEdges,   \* history: edges as they were when file was written
    nIngest,     \* number of add calls so far, over all processes
    snapshotIds, \* history: the ids allocated, when the file was written, in
                 \* the registry this registry was loaded from
    second,      \* the registry of a second process that ingests the same rows
    replayed,    \* indices of log the second process has ingested
    call,        \* the arguments of a call of one of the module-level functions
    result       \* what that call returned or raised, Pending before it ran

vars == <<registry, file, last, ret, branch, taken, log, edges, allocated,
          firstRet, summarized, fileEdges, nIngest, snapshotIds, second,
          replayed, call, result>>

----------------------------------------------------------------------------
(* Bounds *)
NumForm == 3
NumApp == 3
MaxIngest == 4
MaxReplay == 3
MaxElts == 3
MaxRun == 3
MaxTokens == 6
MaxExpLen == 3
MaxFormArgs == 2
MaxAppArgs == 1
MaxEqId == 1

----------------------------------------------------------------------------
(* Values *)
None == 0
NoId == -1
NoFile == [exists |-> FALSE, data |-> <<>>]
NoError == "none"
NoCall == [op |-> "none"]
Pending == [raised |-> "pending"]

FormulationTuple(ingredient, form_route, strength) ==
    [type |-> "FormulationTuple", fields |-> <<ingredient, form_route, strength>>]

ApplicationTuple(appl_no, product_no) ==
    [type |-> "ApplicationTuple", fields |-> <<appl_no, product_no>>]

\* The keys the rows of the model carry.  Field texts are stood for by
\* integers whose order is the texts' order; the keys differ in their first
\* or in a later field, so that sorting them compares more than one field.
FormKey(i) == FormulationTuple((i + 1) \div 2, 1, i % 2)
AppKey(j) == ApplicationTuple((j + 1) \div 2, j % 2)
FormKeys == { FormKey(i) : i \in 1..NumForm }
AppKeys == { AppKey(j) : j \in 1..NumApp }

\* The product rows a run may read, each with the keys form_tuple and
\* app_tuple derive from it: formulation i under application i or i + 1, and
\* formulation 2 under application 1.  They chain all the keys together and
\* close one cycle.
Rows ==
    { [form_tuple |-> FormKey(i), app_tuple |-> AppKey(j)] :
        <<i, j>> \in { p \in (1..NumForm) \X (1..NumApp) :
                         \/ p[2] = p[1]
                         \/ p[2] = p[1] + 1
                         \/ p = <<2, 1>> } }

row_form_tuple(r) == r.form_tuple
row_app_tuple(r) == r.app_tuple

----------------------------------------------------------------------------
(* Dictionaries.  form_tuple_classes and app_tuple_classes are functions   *)
(* from the keys present; eq_classes keeps its insertion order, which is   *)
(* the order of values().                                                  *)
EmptyDict == [k \in {} |-> None]
Put(d, k, v) == [x \in (DOMAIN d) \cup {k} |-> IF x = k THEN v ELSE d[x]]

ODKeys(od) == { od[i].key : i \in 1..Len(od) }
ODGet(od, k) == (CHOOSE i \in 1..Len(od) : od[i].key = k)
ODValue(od, k) == od[ODGet(od, k)].value
ODSet(od, k, v) ==
    IF k \in ODKeys(od)
    THEN [od EXCEPT ![ODGet(od, k)] = [key |-> k, value |-> v]]
    ELSE Append(od, [key |-> k, value |-> v])
ODDel(od, k) == SelectSeq(od, LAMBDA e : e.key # k)

Max(a, b) == IF a >= b THEN a ELSE b

EmptyRegistry ==
    [ objects |-> <<>>,
      eq_classes |-> <<>>,
      next_eq_id |-> 0,
      form_tuple_classes |-> EmptyDict,
      app_tuple_classes |-> EmptyDict,
      raised |-> NoError ]

Raise(R, e) == [R EXCEPT !.raised = e]

----------------------------------------------------------------------------
(* EquivalenceClass methods.  Each takes the registry R and returns the    *)
(* registry after the call; once R.raised is set the exception propagates  *)
(* and nothing further is changed.                                         *)

add_form_tuple(R, self, ft) ==
    IF R.raised # NoError THEN R
    ELSE IF ft.type # "FormulationTuple" THEN Raise(R, "AssertionError")
    ELSE IF ft \in DOMAIN R.form_tuple_classes
         THEN Raise(R, "Multiple equivalence classes")
    ELSE [R EXCEPT !.form_tuple_classes = Put(@, ft, self),
                   !.objects[self].form_tuples = @ \cup {ft}]

\* add_app_tuple that does not record the owner of the key.
add_app_tuple_unregistered(R, self, at) ==
    IF R.raised # NoError THEN R
    ELSE IF at.type # "ApplicationTuple" THEN Raise(R, "AssertionError")
    ELSE IF at \in DOMAIN R.app_tuple_classes
         THEN Raise(R, "Multiple equivalence classes")
    ELSE [R EXCEPT !.objects[self].app_tuples = @ \cup {at}]

add_app_tuple(R, self, at) ==
    IF R.raised # NoError THEN R
    ELSE IF at.type # "ApplicationTuple" THEN Raise(R, "AssertionError")
    ELSE IF at \in DOMAIN R.app_tuple_classes
         THEN Raise(R, "Multiple equivalence classes")
    ELSE [R EXCEPT !.app_tuple_classes = Put(@, at, self),
                   !.objects[self].app_tuples = @ \cup {at}]

RECURSIVE add_form_tuples(_, _, _)
add_form_tuples(R, self, fts) ==
    IF fts = <<>> THEN R
    ELSE add_form_tuples(add_form_tuple(R, self, Head(fts)), self, Tail(fts))

RECURSIVE add_app_tuples(_, _, _)
add_app_tuples(R, self, ats) ==
    IF ats = <<>> THEN R
    ELSE add_app_tuples(add_app_tuple(R, self, Head(ats)), self, Tail(ats))

\* EquivalenceClass(form_tuples, app_tuples, eq_id): the new instance is
\* Len(R.objects) + 1.  eq_id = NoId stands for the default eq_id = None.
EquivalenceClass(R, form_tuples, app_tuples, eq_id) ==
    LET self == Len(R.objects) + 1
        R0 == [R EXCEPT !.objects = Append(@,
                  [form_tuples |-> {}, app_tuples |-> {}, eq_id |-> NoId])]
        R1 == add_form_tuples(R0, self, form_tuples)
        R2 == add_app_tuples(R1, self, app_tuples)
        id == IF eq_id = NoId THEN R2.next_eq_id ELSE eq_id
        R3 == IF R2.raised # NoError THEN R2
              ELSE IF eq_id = NoId
                   THEN [R2 EXCEPT !.next_eq_id = @ + 1]
                   ELSE [R2 EXCEPT !.next_eq_id = Max(@, eq_id + 1)]
    IN  IF R3.raised # NoError THEN R3
        ELSE IF id \in ODKeys(R3.eq_classes) THEN Raise(R3, "AssertionError")
        ELSE [R3 EXCEPT !.objects[self].eq_id = id,
                        !.eq_classes = ODSet(@, id, self)]

\* append without the early return for a row both of whose keys are known.
append_always_adds(R, self, ft, at) ==
    IF R.raised # NoError THEN R
    ELSE IF at \in R.objects[self].app_tuples
         THEN add_form_tuple(R, self, ft)
    ELSE IF ft \in R.objects[self].form_tuples
         THEN add_app_tuple(R, self, at)
    ELSE Raise(R, "Neither form nor app tuple matched")

append(R, self, ft, at) ==
    IF R.raised # NoError THEN R
    ELSE IF at \in R.objects[self].app_tuples
         THEN IF ft \in R.objects[self].form_tuples THEN R
              ELSE add_form_tuple(R, self, ft)
    ELSE IF ft \in R.objects[self].form_tuples
         THEN add_app_tuple(R, self, at)
    ELSE Raise(R, "Neither form nor app tuple matched")

\* Variants of merge with one of its statements left out or changed.
merge_keeps_app_pointers(R, self, other) ==
    IF R.raised # NoError THEN R
    ELSE
    LET o == R.objects[other]
        R1 == [R EXCEPT
                 !.objects[self].form_tuples = @ \cup o.form_tuples,
                 !.form_tuple_classes =
                     [k \in DOMAIN @ \cup o.form_tuples |->
                        IF k \in o.form_tuples THEN self ELSE @[k]],
                 !.objects[self].app_tuples = @ \cup o.app_tuples]
    IN  [R1 EXCEPT !.eq_classes = ODDel(@, R1.objects[other].eq_id)]

merge_keeps_other(R, self, other) ==
    IF R.raised # NoError THEN R
    ELSE
    LET o == R.objects[other]
    IN  [R EXCEPT
           !.objects[self].form_tuples = @ \cup o.form_tuples,
           !.form_tuple_classes =
               [k \in DOMAIN @ \cup o.form_tuples |->
                  IF k \in o.form_tuples THEN self ELSE @[k]],
           !.objects[self].app_tuples = @ \cup o.app_tuples,
           !.app_tuple_classes =
               [k \in DOMAIN @ \cup o.app_tuples |->
                  IF k \in o.app_tuples THEN self ELSE @[k]]]

merge_drops_form_tuples(R, self, other) ==
    IF R.raised # NoError THEN R
    ELSE
    LET o == R.objects[other]
        R1 == [R EXCEPT
                 !.form_tuple_classes =
                     [k \in DOMAIN @ \cup o.form_tuples |->
                        IF k \in o.form_tuples THEN self ELSE @[k]],
                 !.objects[self].app_tuples = @ \cup o.app_tuples,
                 !.app_tuple_classes =
                     [k \in DOMAIN @ \cup o.app_tuples |->
                        IF k \in o.app_tuples THEN self ELSE @[k]]]
    IN  [R1 EXCEPT !.eq_classes = ODDel(@, R1.objects[other].eq_id)]

merge_into_other(R, self, other) ==
    IF R.raised # NoError THEN R
    ELSE
    LET o == R.objects[self]
        R1 == [R EXCEPT
                 !.objects[other].form_tuples = @ \cup o.form_tuples,
                 !.form_tuple_classes =
                     [k \in DOMAIN @ \cup o.form_tuples |->
                        IF k \in o.form_tuples THEN other ELSE @[k]],
                 !.objects[other].app_tuples = @ \cup o.app_tuples,
                 !.app_tuple_classes =
                     [k \in DOMAIN @ \cup o.app_tuples |->
                        IF k \in o.app_tuples THEN other ELSE @[k]]]
    IN  [R1 EXCEPT !.eq_classes = ODDel(@, R1.objects[self].eq_id)]

merge_reregisters(R, self, other) ==
    IF R.raised # NoError THEN R
    ELSE
    LET o == R.objects[other]
        R1 == [R EXCEPT
                 !.objects[self].form_tuples = @ \cup o.form_tuples,
                 !.form_tuple_classes =
                     [k \in DOMAIN @ \cup o.form_tuples |->
                        IF k \in o.form_tuples THEN self ELSE @[k]],
                 !.objects[self].app_tuples = @ \cup o.app_tuples,
                 !.app_tuple_classes =
                     [k \in DOMAIN @ \cup o.app_tuples |->
                        IF k \in o.app_tuples THEN self ELSE @[k]]]
    IN  [R1 EXCEPT !.eq_classes =
            ODSet(ODDel(ODDel(@, R1.objects[other].eq_id),
                        R1.objects[self].eq_id),
                  R1.objects[self].eq_id, self)]

merge_frees_id(R, self, other) ==
    IF R.raised # NoError THEN R
    ELSE
    LET o == R.objects[other]
        R1 == [R EXCEPT
                 !.objects[self].form_tuples = @ \cup o.form_tuples,
                 !.form_tuple_classes =
                     [k \in DOMAIN @ \cup o.form_tuples |->
                        IF k \in o.form_tuples THEN self ELSE @[k]],
                 !.objects[self].app_tuples = @ \cup o.app_tuples,
                 !.app_tuple_classes =
                     [k \in DOMAIN @ \cup o.app_tuples |->
                        IF k \in o.app_tuples THEN self ELSE @[k]]]
    IN  [R1 EXCEPT !.eq_classes = ODDel(@, R1.objects[other].eq_id),
                   !.next_eq_id = R1.objects[other].eq_id]

\* merge that replaces the members of self by those of the other class.
merge_replaces_members(R, self, other) ==
    IF R.raised # NoError THEN R
    ELSE
    LET o == R.objects[other]
        R1 == [R EXCEPT
                 !.objects[self].form_tuples = o.form_tuples,
                 !.form_tuple_classes =
                     [k \in DOMAIN @ \cup o.form_tuples |->
                        IF k \in o.form_tuples THEN self ELSE @[k]]]
        o1 == R1.objects[other]
        R2 == [R1 EXCEPT
                 !.objects[self].app_tuples = o1.app_tuples,
                 !.app_tuple_classes =
                     [k \in DOMAIN @ \cup o1.app_tuples |->
                        IF k \in o1.app_tuples THEN self ELSE @[k]]]
    IN  IF R2.objects[other].eq_id \in ODKeys(R2.eq_classes)
        THEN [R2 EXCEPT !.eq_classes = ODDel(@, R2.objects[other].eq_id)]
        ELSE Raise(R2, "KeyError")

merge(R, self, other) ==
    IF R.raised # NoError THEN R
    ELSE
    LET o == R.objects[other]
        R1 == [R EXCEPT
                 !.objects[self].form_tuples = @ \cup o.form_tuples,
                 !.form_tuple_classes =
                     [k \in DOMAIN @ \cup o.form_tuples |->
                        IF k \in o.form_tuples THEN self ELSE @[k]]]
        o1 == R1.objects[other]
        R2 == [R1 EXCEPT
                 !.objects[self].app_tuples = @ \cup o1.app_tuples,
                 !.app_tuple_classes =
                     [k \in DOMAIN @ \cup o1.app_tuples |->
                        IF k \in o1.app_tuples THEN self ELSE @[k]]]
    IN  IF R2.objects[other].eq_id \in ODKeys(R2.eq_classes)
        THEN [R2 EXCEPT !.eq_classes = ODDel(@, R2.objects[other].eq_id)]
        ELSE Raise(R2, "KeyError")

get(R, tup) ==
    IF tup.type = "FormulationTuple"
    THEN IF tup \in DOMAIN R.form_tuple_classes
         THEN R.form_tuple_classes[tup] ELSE None
    ELSE IF tup \in DOMAIN R.app_tuple_classes
         THEN R.app_tuple_classes[tup] ELSE None

has(R, tup) ==
    IF tup.type = "FormulationTuple"
    THEN tup \in DOMAIN R.form_tuple_classes
    ELSE tup \in DOMAIN R.app_tuple_classes

\* add whose last case appends without merging first.
add_without_merge(R, r) ==
    LET ft == row_form_tuple(r)
        at == row_app_tuple(r)
        ftc == get(R, ft)
        atc == get(R, at)
        Result(R1, c, which) ==
            [reg |-> R1,
             ret |-> IF R1.raised = NoError THEN c ELSE None,
             branch |-> which]
    IN  IF ftc = None /\ atc = None
        THEN Result(EquivalenceClass(R, <<ft>>, <<at>>, NoId),
                    Len(R.objects) + 1, "new")
        ELSE IF atc = None
        THEN Result(append(R, ftc, ft, at), ftc, "form")
        ELSE IF ftc = None
        THEN Result(append(R, atc, ft, at), atc, "app")
        ELSE IF atc = ftc
        THEN Result(append(R, ftc, ft, at), ftc, "same")
        ELSE Result(append(R, ftc, ft, at), ftc, "merge")

\* add whose first case makes the new class from the formulation key alone.
add_new_without_app(R, r) ==
    LET ft == row_form_tuple(r)
        at == row_app_tuple(r)
        ftc == get(R, ft)
        atc == get(R, at)
        Result(R1, c, which) ==
            [reg |-> R1,
             ret |-> IF R1.raised = NoError THEN c ELSE None,
             branch |-> which]
    IN  IF ftc = None /\ atc = None
        THEN Result(EquivalenceClass(R, <<ft>>, <<>>, NoId),
                    Len(R.objects) + 1, "new")
        ELSE IF atc = None
        THEN Result(append(R, ftc, ft, at), ftc, "form")
        ELSE IF ftc = None
        THEN Result(append(R, atc, ft, at), atc, "app")
        ELSE IF atc = ftc
        THEN Result(append(R, ftc, ft, at), ftc, "same")
        ELSE Result(append(merge(R, ftc, atc), ftc, ft, at), ftc, "merge")

\* EquivalenceClass.add(row): the registry after the call, the instance
\* returned (None when the call raised) and the case taken.
add(R, r) ==
    LET ft == row_form_tuple(r)
        at == row_app_tuple(r)
        ftc == get(R, ft)
        atc == get(R, at)
        Result(R1, c, which) ==
            [reg |-> R1,
             ret |-> IF R1.raised = NoError THEN c ELSE None,
             branch |-> which]
    IN  IF ftc = None /\ atc = None
        THEN Result(EquivalenceClass(R, <<ft>>, <<at>>, NoId),
                    Len(R.objects) + 1, "new")
        ELSE IF atc = None
        THEN Result(append(R, ftc, ft, at), ftc, "form")
        ELSE IF ftc = None
        THEN Result(append(R, atc, ft, at), atc, "app")
        ELSE IF atc = ftc
        THEN Result(append(R, ftc, ft, at), ftc, "same")
        ELSE Result(append(merge(R, ftc, atc), ftc, ft, at), ftc, "merge")

all(R) == [i \in 1..Len(R.eq_classes) |-> R.eq_classes[i].value]


\* Python's order on tuples: field by field, a proper prefix first.
RECURSIVE TupleLess(_, _)
TupleLess(a, b) ==
    IF a = <<>> THEN b # <<>>
    ELSE IF b = <<>> THEN FALSE
    ELSE IF Head(a) # Head(b) THEN Head(a) < Head(b)
    ELSE TupleLess(Tail(a), Tail(b))

\* sorted(S) for a set S of named tuples.
RECURSIVE sorted(_)
sorted(S) ==
    IF S = {} THEN <<>>
    ELSE LET m == CHOOSE x \in S :
                    \A y \in S \ {x} : TupleLess(x.fields, y.fields)
         IN  <<m>> \o sorted(S \ {m})

to_dict(R, self) ==
    [eq_id |-> R.objects[self].eq_id,
     form_tuples |-> sorted(R.objects[self].form_tuples),
     app_tuples |-> sorted(R.objects[self].app_tuples)]

\* json.dump of a list of to_dict results: a named tuple is written as the
\* array of its fields, its type is not written.
json_dump(dicts) ==
    [i \in 1..Len(dicts) |->
        [eq_id |-> dicts[i].eq_id,
         form_tuples |-> [j \in 1..Len(dicts[i].form_tuples) |->
                              dicts[i].form_tuples[j].fields],
         app_tuples |-> [j \in 1..Len(dicts[i].app_tuples) |->
                              dicts[i].app_tuples[j].fields]]]

\* The list summarize writes to EQUIV_SUMMARY.
summarize(R) ==
    json_dump([i \in 1..Len(all(R)) |-> to_dict(R, all(R)[i])])

\* load_records that lets the constructor number the classes.
RECURSIVE load_records_renumbered(_, _)
load_records_renumbered(R, rs) ==
    IF rs = <<>> THEN R
    ELSE LET r == Head(rs)
             fts == [j \in 1..Len(r.form_tuples) |->
                        FormulationTuple(r.form_tuples[j][1],
                                         r.form_tuples[j][2],
                                         r.form_tuples[j][3])]
             ats == [j \in 1..Len(r.app_tuples) |->
                        ApplicationTuple(r.app_tuples[j][1],
                                         r.app_tuples[j][2])]
             R1 == IF R.raised # NoError THEN R
                   ELSE EquivalenceClass(R, fts, ats, NoId)
         IN  load_records_renumbered(R1, Tail(rs))

RECURSIVE load_records(_, _)
load_records(R, rs) ==
    IF rs = <<>> THEN R
    ELSE LET r == Head(rs)
             fts == [j \in 1..Len(r.form_tuples) |->
                        FormulationTuple(r.form_tuples[j][1],
                                         r.form_tuples[j][2],
                                         r.form_tuples[j][3])]
             ats == [j \in 1..Len(r.app_tuples) |->
                        ApplicationTuple(r.app_tuples[j][1],
                                         r.app_tuples[j][2])]
             R1 == IF R.raised # NoError THEN R
                   ELSE EquivalenceClass(R, fts, ats, r.eq_id)
         IN  load_records(R1, Tail(rs))

\* The equivalence-class part of load_summary (the patent and product
\* tables it also reads are not part of the registry).
load_summary(R, f) ==
    IF Len(R.eq_classes) = 0
    THEN IF f = NoFile THEN Raise(R, "FileNotFoundError")
         ELSE load_records(R, f.data)
    ELSE R

----------------------------------------------------------------------------
(* Views of a registry *)
Live(R) == { R.eq_classes[i].value : i \in 1..Len(R.eq_classes) }
LiveIds(R) == ODKeys(R.eq_classes)
Members(R, c) == R.objects[c].form_tuples \cup R.objects[c].app_tuples
Partition(R) == { Members(R, c) : c \in Live(R) }
Ids(R) == { R.objects[o].eq_id : o \in 1..Len(R.objects) } \ {NoId}
Range(s) == { s[i] : i \in 1..Len(s) }

----------------------------------------------------------------------------
(* The processes *)
Init ==
    /\ registry = EmptyRegistry
    /\ file = NoFile
    /\ last = "start"
    /\ ret = None
    /\ branch = "none"
    /\ taken = {}
    /\ log = <<>>
    /\ edges = {}
    /\ allocated = {}
    /\ firstRet = EmptyDict
    /\ summarized = EmptyRegistry
    /\ fileEdges = {}
    /\ nIngest = 0
    /\ snapshotIds = {}
    /\ second = EmptyRegistry
    /\ replayed = {}
    /\ call = NoCall
    /\ result = Pending

\* One call EquivalenceClass.add(row), as summarize makes for every product
\* row it reads.
Add(r) ==
    /\ registry.raised = NoError
    /\ last # "summarize"
    /\ nIngest < MaxIngest
    /\ LET res == add(registry, r)
       IN  /\ registry' = res.reg
           /\ ret' = res.ret
           /\ branch' = res.branch
           /\ taken' = taken \cup {res.branch}
           /\ allocated' = allocated \cup Ids(res.reg)
           /\ firstRet' = IF r \in DOMAIN firstRet THEN firstRet
                          ELSE Put(firstRet, r, res.ret)
    /\ last' = "add"
    /\ log' = Append(log, r)
    /\ edges' = edges \cup {r}
    /\ nIngest' = nIngest + 1
    /\ UNCHANGED <<call, result, file, summarized, fileEdges, snapshotIds, second, replayed>>

\* The end of summarize: the live classes are written to EQUIV_SUMMARY.
Summarize ==
    /\ registry.raised = NoError
    /\ last # "summarize"
    /\ file' = [exists |-> TRUE, data |-> summarize(registry)]
    /\ summarized' = registry
    /\ fileEdges' = edges
    /\ last' = "summarize"
    /\ UNCHANGED <<call, result, registry, ret, branch, taken, log, edges, allocated,
                   firstRet, nIngest, snapshotIds, second, replayed>>

\* The next run of a program, after summarize has written the file and its
\* run has ended or after an exception has ended a run: the class attributes
\* are as the class statement leaves them, the file stays.
Restart ==
    /\ last = "summarize" \/ registry.raised # NoError
    /\ registry' = EmptyRegistry
    /\ last' = "restart"
    /\ ret' = None
    /\ branch' = "none"
    /\ taken' = {}
    /\ log' = <<>>
    /\ edges' = {}
    /\ allocated' = {}
    /\ firstRet' = EmptyDict
    /\ snapshotIds' = {}
    /\ UNCHANGED <<call, result, file, summarized, fileEdges, nIngest, second, replayed>>

LoadSummary ==
    /\ registry.raised = NoError
    /\ last \notin {"summarize", "load_summary"}
    /\ LET R1 == load_summary(registry, file)
       IN  /\ registry' = R1
           /\ allocated' = allocated \cup Ids(R1)
           /\ edges' = IF Len(registry.eq_classes) = 0 /\ R1.raised = NoError
                       THEN fileEdges ELSE edges
           /\ snapshotIds' =
                 IF Len(registry.eq_classes) = 0 /\ R1.raised = NoError
                 THEN Ids(summarized) ELSE snapshotIds
    /\ last' = "load_summary"
    /\ UNCHANGED <<call, result, file, ret, branch, taken, log, firstRet, summarized,
                   fileEdges, nIngest, second, replayed>>

Next ==
    \/ \E r \in Rows : Add(r)
    \/ Summarize
    \/ Restart
    \/ LoadSummary

Spec == Init /\ [][Next]_vars

\* A second process ingests the rows of log, each once, in any order.
Replay(i) ==
    /\ Len(log) <= MaxReplay
    /\ i \in (1..Len(log)) \ replayed
    /\ second.raised = NoError
    /\ second' = add(second, log[i]).reg
    /\ replayed' = replayed \cup {i}
    /\ UNCHANGED <<call, result, registry, file, last, ret, branch, taken, log, edges,
                   allocated, firstRet, summarized, fileEdges, nIngest,
                   snapshotIds>>

NextOrder ==
    \/ \E r \in Rows : Add(r)
    \/ \E i \in 1..MaxIngest : Replay(i)

SpecOrder == Init /\ [][NextOrder]_vars

\* A caller constructs an EquivalenceClass itself, as load_summary does for
\* every record of the file, in a registry that ingests have filled.
DistinctSeqs(S, n) ==
    { s \in [1..n -> S] : \A i, j \in 1..n : i # j => s[i] # s[j] }
ConstructForms == UNION { DistinctSeqs(FormKeys, n) : n \in 1..MaxFormArgs }
ConstructApps == UNION { DistinctSeqs(AppKeys, n) : n \in 0..MaxAppArgs }
ConstructIds == {NoId} \cup (0..MaxEqId)

Construct(form_tuples, app_tuples, eq_id) ==
    /\ registry.raised = NoError
    /\ last \in {"start", "add"}
    /\ call = NoCall
    /\ LET R1 == EquivalenceClass(registry, form_tuples, app_tuples, eq_id)
       IN  /\ registry' = R1
           /\ ret' = IF R1.raised = NoError THEN Len(R1.objects) ELSE None
           /\ allocated' = allocated \cup Ids(R1)
    /\ call' = [op |-> "EquivalenceClass", form_tuples |-> form_tuples,
                app_tuples |-> app_tuples, eq_id |-> eq_id]
    /\ result' = [raised |-> registry'.raised, before |-> registry]
    /\ last' = "construct"
    /\ UNCHANGED <<file, branch, taken, log, edges, firstRet, summarized,
                   fileEdges, nIngest, snapshotIds, second, replayed>>

NextConstruct ==
    \/ \E r \in Rows : Add(r)
    \/ \E fts \in ConstructForms, ats \in ConstructApps, id \in ConstructIds :
         Construct(fts, ats, id)

SpecConstruct == Init /\ [][NextConstruct]_vars

----------------------------------------------------------------------------
(* Text.  A string is a sequence of tokens: a word of letters is one       *)
(* token, every digit, punctuation mark and blank is a token of its own.   *)

\* The tokens in the order of Python's string comparison.
Collation ==
    << " ", "%", "(", ")", "*", ",", ".", "/",
       "0", "1", "2", "3", "4", "5", "6", "7", "8", "9", ";",
       "A", "B", "BASE", "C", "EQ", "Federal", "GM", "MG", "ML", "N",
       "Register", "X", "g", "mL", "mg", "ug" >>
Rank(t) == CHOOSE i \in 1..Len(Collation) : Collation[i] = t

RECURSIVE TextLess(_, _)
TextLess(a, b) ==
    IF a = <<>> THEN b # <<>>
    ELSE IF b = <<>> THEN FALSE
    ELSE IF Head(a) = Head(b) THEN TextLess(Tail(a), Tail(b))
    ELSE Rank(Head(a)) < Rank(Head(b))

\* sep.join(parts)
RECURSIVE join(_, _)
join(sep, parts) ==
    IF parts = <<>> THEN <<>>
    ELSE IF Len(parts) = 1 THEN parts[1]
    ELSE parts[1] \o sep \o join(sep, Tail(parts))

\* The first position of the token t in text, 0 when it has none.
find(text, t) ==
    IF \E i \in 1..Len(text) : text[i] = t
    THEN CHOOSE i \in 1..Len(text) :
            text[i] = t /\ \A j \in 1..(i - 1) : text[j] # t
    ELSE 0

\* text.split(sep), sep one token
RECURSIVE split(_, _)
split(text, sep) ==
    LET i == find(text, sep)
    IN  IF i = 0 THEN <<text>>
        ELSE <<SubSeq(text, 1, i - 1)>>
                \o split(SubSeq(text, i + 1, Len(text)), sep)

RECURSIVE lstrip(_)
lstrip(text) ==
    IF text # <<>> /\ Head(text) = " " THEN lstrip(Tail(text)) ELSE text

RECURSIVE rstrip(_)
rstrip(text) ==
    IF text # <<>> /\ text[Len(text)] = " "
    THEN rstrip(SubSeq(text, 1, Len(text) - 1)) ELSE text

strip(text) == lstrip(rstrip(text))

\* re.split(r";\s*", text)
RECURSIVE re_split_semicolon(_)
re_split_semicolon(text) ==
    LET i == find(text, ";")
    IN  IF i = 0 THEN <<text>>
        ELSE <<SubSeq(text, 1, i - 1)>>
                \o re_split_semicolon(lstrip(SubSeq(text, i + 1, Len(text))))

\* re.sub("; ", ";", text)
RECURSIVE re_sub_semicolon_blank(_)
re_sub_semicolon_blank(text) ==
    IF Len(text) >= 2 /\ text[1] = ";" /\ text[2] = " "
    THEN <<";">> \o re_sub_semicolon_blank(SubSeq(text, 3, Len(text)))
    ELSE IF text = <<>> THEN <<>>
    ELSE <<Head(text)>> \o re_sub_semicolon_blank(Tail(text))

Min(a, b) == IF a < b THEN a ELSE b

----------------------------------------------------------------------------
(* form_tuple and parse_strengths of ob.py.  A function that can raise     *)
(* returns [raised, value].                                                *)

Returned(v) == [raised |-> NoError, value |-> v]
Raised(e) == [raised |-> e, value |-> <<>>]
NoTuple == FormulationTuple(<<>>, <<>>, <<>>)

\* The literal the pattern " \*\*Federal Register.*$" starts with.
FederalRegister == << " ", "*", "*", "Federal", " ", "Register" >>

\* re.sub(r" \*\*Federal Register.*$", "", text)
re_sub_federal_register(text) ==
    LET n == Len(FederalRegister)
        at(i) == i + n - 1 <= Len(text)
                    /\ SubSeq(text, i, i + n - 1) = FederalRegister
    IN  IF \E i \in 1..Len(text) : at(i)
        THEN LET i == CHOOSE i \in 1..Len(text) :
                         at(i) /\ \A j \in 1..(i - 1) : ~at(j)
             IN  SubSeq(text, 1, i - 1)
        ELSE text

\* The one strength text parse_strengths answers from a table.
SpecialStrength ==
    << "2", "5", "0", ".", "0", "MG", ";", "1", "2", ".", "5", "MG", ";",
       "7", "5", ".", "0", "MG", ";", "EQ", " ", "2", "5", "0", "MG", " ",
       "BASE", ",", "N", "/", "A", ",", "N", "/", "A", ",", "N", "/", "A",
       ";", " ", "N", "/", "A", ",", "1", "2", ".", "5", "MG", ",",
       "7", "5", "MG", ",", "5", "0", "MG" >>
SpecialStrengths ==
    << <<"2", "5", "0", "MG">>, <<"1", "2", ".", "5", "MG">>,
       <<"7", "5", "MG">>, <<"5", "0", "MG">> >>

\* re.search(r"^(.*;.*?)\s*\((.*;.*)\)", text): the groups m[1] and m[2],
\* or matched = FALSE.  An opening parenthesis can be the one the pattern
\* names when a semicolon precedes it and a semicolon and then a closing
\* parenthesis follow it.  The greedy .* before the semicolon takes the last
\* semicolon that still has such a parenthesis after it, the lazy .*? the
\* first such parenthesis after that, less the blanks \s* takes, and the
\* second group runs to the last closing parenthesis.
re_search_parenthesised(text) ==
    LET n == Len(text)
        opens == { k \in 1..n :
                     /\ text[k] = "("
                     /\ \E p \in 1..(k - 1) : text[p] = ";"
                     /\ \E s \in (k + 1)..n :
                           text[s] = ";" /\ \E e \in (s + 1)..n : text[e] = ")" }
    IN  IF opens = {} THEN [matched |-> FALSE, m1 |-> <<>>, m2 |-> <<>>]
        ELSE LET kl == CHOOSE k \in opens : \A x \in opens : x <= k
                 p == CHOOSE i \in 1..(kl - 1) :
                         text[i] = ";" /\ \A j \in (i + 1)..(kl - 1) : text[j] # ";"
                 k == CHOOSE x \in opens :
                         x > p /\ \A y \in opens : y > p => x <= y
                 q == CHOOSE i \in p..(k - 1) :
                         /\ \A j \in (i + 1)..(k - 1) : text[j] = " "
                         /\ (i = p \/ text[i] # " ")
                 e == CHOOSE i \in 1..n :
                         text[i] = ")" /\ \A j \in (i + 1)..n : text[j] # ")"
             IN  [matched |-> TRUE, m1 |-> SubSeq(text, 1, q),
                  m2 |-> SubSeq(text, k + 1, e - 1)]

parse_strengths(text0, exp_len) ==
    LET paired(a, b) ==
            Returned([i \in 1..Min(Len(a), Len(b)) |->
                        a[i] \o <<" ", "(">> \o b[i] \o <<")">>])
        columns(cols, depth) ==
            [j \in 1..depth |->
               join(<<",", " ">>, [i \in 1..Len(cols) |-> cols[i][j]])]
        transposed(cols, longest) ==
            columns(cols, CHOOSE d \in 0..longest :
                             /\ \A i \in 1..Len(cols) : d <= Len(cols[i])
                             /\ \E i \in 1..Len(cols) : d = Len(cols[i]))
        chunks(elts, step) ==
            Returned([t \in 1..exp_len |->
                        join(<<",", " ">>,
                             SubSeq(elts, (t - 1) * step + 1,
                                    Min((t - 1) * step + exp_len, Len(elts))))])
        regrouped(elts, relts) ==
            IF Len(elts) = exp_len \/ exp_len = 1 THEN Returned(elts)
            ELSE IF Len(relts) = exp_len THEN Returned(relts)
            ELSE IF Len(elts) % exp_len = 0 THEN chunks(elts, Len(elts) \div exp_len)
            ELSE Raised("RuntimeError")
        separated(text, elts) ==
            regrouped(elts, transposed([i \in 1..Len(elts) |-> split(elts[i], ",")],
                                       Len(text) + 1))
        searched(text, m) ==
            IF text = SpecialStrength THEN Returned(SpecialStrengths)
            ELSE IF m.matched
            THEN paired(re_split_semicolon(m.m1), re_split_semicolon(m.m2))
            ELSE separated(text, re_split_semicolon(text))
        cleaned(text) == searched(text, re_search_parenthesised(text))
    IN  cleaned(re_sub_federal_register(text0))

\* sorted(pairs) for pairs of texts
PairLess(p, q) == TextLess(p[1], q[1]) \/ (p[1] = q[1] /\ TextLess(p[2], q[2]))

RECURSIVE sorted_pairs(_)
sorted_pairs(pairs) ==
    LET insert_at(x, rest, k) ==
            SubSeq(rest, 1, k) \o <<x>> \o SubSeq(rest, k + 1, Len(rest))
        insert(x, rest) ==
            insert_at(x, rest,
                      Cardinality({ i \in 1..Len(rest) : PairLess(rest[i], x) }))
    IN  IF pairs = <<>> THEN <<>>
        ELSE insert(Head(pairs), sorted_pairs(Tail(pairs)))

\* form_tuple without the comparison of the two lengths: zip pairs as many
\* ingredients and strengths as both lists have.
form_tuple_unchecked(row) ==
    LET key(form_route, pairs) ==
            Returned(FormulationTuple(
                join(<<";", " ">>, [i \in 1..Len(pairs) |-> pairs[i][1]]),
                form_route,
                join(<<";", " ">>, [i \in 1..Len(pairs) |-> pairs[i][2]])))
        zipped(ingredients, strengths) ==
            key(re_sub_semicolon_blank(row.df_route),
                sorted_pairs([i \in 1..Min(Len(ingredients), Len(strengths)) |->
                                <<ingredients[i], strengths[i]>>]))
        listed(named, parsed) ==
            IF parsed.raised # NoError
            THEN [raised |-> parsed.raised, value |-> NoTuple]
            ELSE zipped(IF Len(named) = 1
                        THEN [i \in 1..Len(parsed.value) |-> named[1]]
                        ELSE named,
                        parsed.value)
        parsed_for(named) == listed(named, parse_strengths(row.strength, Len(named)))
    IN  parsed_for(re_split_semicolon(row.ingredient))

form_tuple(row) ==
    LET key(form_route, pairs) ==
            Returned(FormulationTuple(
                join(<<";", " ">>, [i \in 1..Len(pairs) |-> pairs[i][1]]),
                form_route,
                join(<<";", " ">>, [i \in 1..Len(pairs) |-> pairs[i][2]])))
        zipped(ingredients, strengths) ==
            IF Len(ingredients) # Len(strengths)
            THEN [raised |-> "AssertionError", value |-> NoTuple]
            ELSE key(re_sub_semicolon_blank(row.df_route),
                     sorted_pairs([i \in 1..Len(ingredients) |->
                                     <<ingredients[i], strengths[i]>>]))
        listed(named, parsed) ==
            IF parsed.raised # NoError
            THEN [raised |-> parsed.raised, value |-> NoTuple]
            ELSE zipped(IF Len(named) = 1
                        THEN [i \in 1..Len(parsed.value) |-> named[1]]
                        ELSE named,
                        parsed.value)
        parsed_for(named) == listed(named, parse_strengths(row.strength, Len(named)))
    IN  parsed_for(re_split_semicolon(row.ingredient))

----------------------------------------------------------------------------
(* Calls of form_tuple.  A record is drawn by listing its ingredients and  *)
(* the elements of its strength field and writing both fields out with     *)
(* one of the two separators the data uses; with it comes the record that  *)
(* lists two neighbouring (ingredient, strength) pairs the other way       *)
(* round.                                                                  *)

IngredientLists ==
    { << <<"A">> >>, << <<"B">> >>,
      << <<"A">>, <<"B">> >>, << <<"B">>, <<"A">> >>, << <<"A">>, <<"A">> >>,
      << <<"A">>, <<"B">>, <<"C">> >>, << <<"C">>, <<"A">>, <<"B">> >>,
      << <<"C">>, <<"A">>, <<"B">>, <<"A">> >> }

\* 1MG and 2MG (X) are strengths as one product has them; 1,2 lists the
\* strengths of two products; 2 (1 and 1) are what the semicolons leave of
\* a strength list followed by a parenthesised second list.
PlainStrengths == { <<"1", "MG">>, <<"2", "MG", " ", "(", "X", ")">> }
StrengthElements ==
    PlainStrengths
        \cup { <<"1", ",", "2">>, <<"2", " ", "(", "1">>, <<"1", ")">> }

StrengthLists == UNION { [1..n -> StrengthElements] : n \in 1..MaxElts }
Separators == { <<";">>, <<";", " ">> }
Notices == { <<>>, FederalRegister \o <<" ", "N">> }
FormRoutes == { <<"A", ";", " ", "B">> }

Record(ingredients, elements, sep, notice, form_route) ==
    [ingredient |-> join(sep, ingredients),
     df_route |-> form_route,
     strength |-> join(sep, elements) \o notice]

\* s with the elements at i and i + 1 exchanged
Exchange(s, i) ==
    [j \in 1..Len(s) |-> IF j = i THEN s[i + 1] ELSE IF j = i + 1 THEN s[i] ELSE s[j]]

ListsPairs(c) == Len(c.ingredients) = Len(c.elements)

FormTupleCalls ==
    { [op |-> "form_tuple", ingredients |-> ings, elements |-> elts,
       exchanged |-> i,
       row |-> Record(ings, elts, sep, notice, fr),
       other |-> IF i = 0 THEN Record(ings, elts, sep, notice, fr)
                 ELSE Record(Exchange(ings, i), Exchange(elts, i), sep, notice, fr)] :
        <<ings, elts, sep, notice, fr, i>> \in
            { x \in IngredientLists \X StrengthLists \X Separators \X Notices
                      \X FormRoutes \X (0..3) :
                 IF Len(x[1]) = Len(x[2]) /\ Len(x[1]) > 1
                 THEN x[6] \in 1..(Len(x[1]) - 1)
                 ELSE x[6] = 0 } }
      \cup
    { [op |-> "form_tuple", ingredients |-> ings, elements |-> <<SpecialStrength>>,
       exchanged |-> 0,
       row |-> Record(ings, <<SpecialStrength>>, <<";">>, <<>>, fr),
       other |-> Record(ings, <<SpecialStrength>>, <<";">>, <<>>, fr)] :
        <<ings, fr>> \in IngredientLists \X FormRoutes }

RegistryAtRest ==
    /\ registry = EmptyRegistry
    /\ file = NoFile
    /\ last = "start"
    /\ ret = None
    /\ branch = "none"
    /\ taken = {}
    /\ log = <<>>
    /\ edges = {}
    /\ allocated = {}
    /\ firstRet = EmptyDict
    /\ summarized = EmptyRegistry
    /\ fileEdges = {}
    /\ nIngest = 0
    /\ snapshotIds = {}
    /\ second = EmptyRegistry
    /\ replayed = {}

registryVars ==
    <<registry, file, last, ret, branch, taken, log, edges, allocated,
      firstRet, summarized, fileEdges, nIngest, snapshotIds, second, replayed>>

InitFormTuple ==
    /\ RegistryAtRest
    /\ call \in FormTupleCalls
    /\ result = Pending

\* form_tuple(row), and form_tuple of the record with the two pairs exchanged
CallFormTuple ==
    /\ call.op = "form_tuple"
    /\ result.raised = "pending"
    /\ LET both(r, other) ==
               [raised |-> r.raised, value |-> r.value, other |-> other]
       IN  result' = both(form_tuple(call.row), form_tuple(call.other))
    /\ UNCHANGED <<call, registryVars>>

SpecFormTuple == InitFormTuple /\ [][CallFormTuple]_vars

----------------------------------------------------------------------------
(* Calls of parse_strengths: a strength field that lists plain strengths,  *)
(* and the number of ingredients its record names.                         *)

TokenLists == UNION { [1..n -> { <<"1", "MG">>, <<"2", "MG">> }] : n \in 1..MaxTokens }

InitParse ==
    /\ RegistryAtRest
    /\ call \in { [op |-> "parse_strengths", elements |-> elts,
                   text |-> join(sep, elts), exp_len |-> k] :
                    <<elts, sep, k>> \in TokenLists \X Separators \X (1..MaxExpLen) }
    /\ result = Pending

CallParseStrengths ==
    /\ call.op = "parse_strengths"
    /\ result.raised = "pending"
    /\ result' = parse_strengths(call.text, call.exp_len)
    /\ UNCHANGED <<call, registryVars>>

SpecParse == InitParse /\ [][CallParseStrengths]_vars

----------------------------------------------------------------------------
(* equivalent_form of match_ndc_ob.py *)

\* The tokens \w does not match.
NonWord == { " ", "%", "(", ")", "*", ",", ".", "/", ";" }

\* re.findall(r"\w+", text), as the set of what it finds
re_findall_words(text) ==
    { SubSeq(text, i, j) : <<i, j>> \in
        { x \in (1..Len(text)) \X (1..Len(text)) :
            /\ x[1] <= x[2]
            /\ \A k \in x[1]..x[2] : text[k] \notin NonWord
            /\ (x[1] = 1 \/ text[x[1] - 1] \in NonWord)
            /\ (x[2] = Len(text) \/ text[x[2] + 1] \in NonWord) } }

form_route_map ==
    (<<"IV">> :> <<"INJECTION">>) @@ (<<"INTRAVENOUS">> :> <<"INJECTION">>)
        @@ (<<"INJECTABLE">> :> <<"INJECTION">>)
        @@ (<<"SC">> :> <<"SUBCUTANEOUS">>) @@ (<<"PELLETS">> :> <<"PELLET">>)
        @@ (<<"INHALANT">> :> <<"INHALATION">>) @@ (<<"CAPSULE">> :> <<"TABLET">>)
        @@ (<<"FILM">> :> <<"PATCH">>) @@ (<<"LIQUID">> :> <<"SOLUTION">>)

\* form_route_map.get(x, x)
form_route_map_get(x) ==
    IF x \in DOMAIN form_route_map THEN form_route_map[x] ELSE x

form_route_words(text) == { form_route_map_get(x) : x \in re_findall_words(text) }

\* text.split(sep, 1)
split_once(text, sep) ==
    LET i == find(text, sep)
    IN  IF i = 0 THEN <<text>>
        ELSE <<SubSeq(text, 1, i - 1), SubSeq(text, i + 1, Len(text))>>

\* equivalent_form without its three special cases
equivalent_form_no_cross(ob_fr, ndc_fr) ==
    LET ob == split_once(ob_fr, ";")
        ndc == split_once(ndc_fr, ";")
        ob_form == form_route_words(ob[1])
        ob_route == form_route_words(ob[2])
        ndc_form == form_route_words(ndc[1])
        ndc_route == form_route_words(ndc[2])
    IN  IF Len(ob) # 2 \/ Len(ndc) # 2 THEN [raised |-> "ValueError", value |-> FALSE]
        ELSE IF ob_route \cap ndc_route = {} THEN Returned(FALSE)
        ELSE IF ob_form \cap ndc_form = {} THEN Returned(FALSE)
        ELSE Returned(TRUE)

\* equivalent_form that looks at the routes only
equivalent_form_routes_only(ob_fr, ndc_fr) ==
    LET ob == split_once(ob_fr, ";")
        ndc == split_once(ndc_fr, ";")
        ob_form == form_route_words(ob[1])
        ob_route == form_route_words(ob[2])
        ndc_form == form_route_words(ndc[1])
        ndc_route == form_route_words(ndc[2])
    IN  IF Len(ob) # 2 \/ Len(ndc) # 2 THEN [raised |-> "ValueError", value |-> FALSE]
        ELSE IF <<"INJECTION">> \in ob_route /\ <<"INJECTION">> \in ndc_route
        THEN Returned(TRUE)
        ELSE IF <<"INJECTION">> \in ob_route /\ <<"INJECTION">> \in ndc_form
        THEN Returned(TRUE)
        ELSE IF <<"INHALATION">> \in ob_route /\ <<"INHALATION">> \in ndc_form
        THEN Returned(TRUE)
        ELSE IF ob_route \cap ndc_route = {} THEN Returned(FALSE)
        ELSE Returned(TRUE)

equivalent_form(ob_fr, ndc_fr) ==
    LET ob == split_once(ob_fr, ";")
        ndc == split_once(ndc_fr, ";")
        ob_form == form_route_words(ob[1])
        ob_route == form_route_words(ob[2])
        ndc_form == form_route_words(ndc[1])
        ndc_route == form_route_words(ndc[2])
    IN  IF Len(ob) # 2 \/ Len(ndc) # 2 THEN [raised |-> "ValueError", value |-> FALSE]
        ELSE IF <<"INJECTION">> \in ob_route /\ <<"INJECTION">> \in ndc_route
        THEN Returned(TRUE)
        ELSE IF <<"INJECTION">> \in ob_route /\ <<"INJECTION">> \in ndc_form
        THEN Returned(TRUE)
        ELSE IF <<"INHALATION">> \in ob_route /\ <<"INHALATION">> \in ndc_form
        THEN Returned(TRUE)
        ELSE IF ob_route \cap ndc_route = {} THEN Returned(FALSE)
        ELSE IF ob_form \cap ndc_form = {} THEN Returned(FALSE)
        ELSE Returned(TRUE)

----------------------------------------------------------------------------
(* Calls of equivalent_form.  Each side's text is a dosage form, a          *)
(* semicolon and a route, or a dosage form alone.                          *)

FormTexts ==
    { <<"INJECTABLE">>, <<"INJECTION", ",", " ", "SOLUTION">>, <<"SOLUTION">>,
      <<"LIQUID">>, <<"CAPSULE">>, <<"TABLET">>, <<"INHALANT">>,
      <<"AEROSOL", ",", " ", "INHALATION">> }
RouteTexts ==
    { <<"INJECTION">>, <<"IV", " ", "(", "INFUSION", ")", ",", " ", "SUBCUTANEOUS">>,
      <<"INTRAVENOUS", ";", " ", "SUBCUTANEOUS">>, <<"SUBCUTANEOUS">>, <<"SC">>,
      <<"ORAL">>, <<"INHALATION">>, <<"INHALANT">> }
FormRouteTexts ==
    { f \o <<";">> \o r : <<f, r>> \in FormTexts \X RouteTexts } \cup { <<"TABLET">> }

\* The texts that differ from text in one token, which the synonym table
\* maps to the token they have in its place.
Images(text) ==
    { [text EXCEPT ![i] = form_route_map[<<text[i]>>][1]] :
        i \in { k \in 1..Len(text) : <<text[k]>> \in DOMAIN form_route_map } }

InitForm ==
    /\ RegistryAtRest
    /\ call \in { [op |-> "equivalent_form", ob_fr |-> a, ndc_fr |-> b] :
                    <<a, b>> \in FormRouteTexts \X FormRouteTexts }
    /\ result = Pending

\* equivalent_form(ob_fr, ndc_fr), and equivalent_form of the same texts
\* with one token replaced by its synonym
CallEquivalentForm ==
    /\ call.op = "equivalent_form"
    /\ result.raised = "pending"
    /\ LET r == equivalent_form(call.ob_fr, call.ndc_fr)
       IN  result' =
             [raised |-> r.raised, value |-> r.value,
              images |-> { equivalent_form(a, call.ndc_fr) : a \in Images(call.ob_fr) }
                            \cup { equivalent_form(call.ob_fr, b) : b \in Images(call.ndc_fr) }]
    /\ UNCHANGED <<call, registryVars>>

SpecForm == InitForm /\ [][CallEquivalentForm]_vars

----------------------------------------------------------------------------
(* match_ingredient of match_ndc_ob.py.  It returns a name or None.        *)

NoMatch == [none |-> TRUE, name |-> <<>>]
Match(name) == [none |-> FALSE, name |-> name]

\* The loop of match_ingredient from index i (counted from 1) on; matches
\* holds the names still in the list, each as its list of words.
RECURSIVE match_loop(_, _, _)
match_loop(words, matches, i) ==
    IF i > Len(words) THEN NoMatch
    ELSE LET kept == { m \in matches : Len(m) >= i /\ m[i] = words[i] }
         IN  IF Cardinality(kept) = 1
             THEN Match(join(<<" ">>, CHOOSE m \in kept : TRUE))
             ELSE IF Cardinality(kept) = 0 THEN NoMatch
             ELSE match_loop(words, kept, i + 1)

\* match_ingredient that answers only when it has compared every word of
\* ing
RECURSIVE match_loop_to_the_end(_, _, _)
match_loop_to_the_end(words, matches, i) ==
    IF i > Len(words)
    THEN IF Cardinality(matches) = 1
         THEN Match(join(<<" ">>, CHOOSE m \in matches : TRUE))
         ELSE NoMatch
    ELSE match_loop_to_the_end(
            words, { m \in matches : Len(m) >= i /\ m[i] = words[i] }, i + 1)

match_ingredient_to_the_end(ing, ing_dict) ==
    match_loop_to_the_end(split(ing, " "),
                          { split(k, " ") : k \in DOMAIN ing_dict }, 1)

\* match_ingredient that answers with the query when the names still tied
\* at the end have it among them
match_ingredient_prefers_itself(ing, ing_dict) ==
    LET found == match_loop(split(ing, " "),
                            { split(k, " ") : k \in DOMAIN ing_dict }, 1)
    IN  IF found.none /\ ing \in DOMAIN ing_dict THEN Match(ing) ELSE found

\* match_ingredient that gives up a name which differs from ing in a word
\* both have
match_ingredient_agreeing(ing, ing_dict) ==
    LET agreeing(found, words, named) ==
            IF /\ ~found.none
               /\ \E j \in 1..Min(Len(words), Len(named)) : words[j] # named[j]
            THEN NoMatch ELSE found
        checked(found) == agreeing(found, split(ing, " "), split(found.name, " "))
    IN  checked(match_loop(split(ing, " "),
                           { split(k, " ") : k \in DOMAIN ing_dict }, 1))

match_ingredient(ing, ing_dict) ==
    match_loop(split(ing, " "), { split(k, " ") : k \in DOMAIN ing_dict }, 1)

----------------------------------------------------------------------------
(* Calls of match_ingredient *)

IngredientNames ==
    { <<"A">>, <<"B">>, <<"A", " ", "B">>, <<"A", " ", "C">>,
      <<"A", " ", "B", " ", "C">>, <<"B", " ", "A">> }
IngredientQueries == IngredientNames \cup { <<"C">>, <<"A", " ", "C", " ", "B">> }

InitIngredient ==
    /\ RegistryAtRest
    /\ call \in { [op |-> "match_ingredient", ing |-> q,
                   ing_dict |-> [k \in pool |-> <<"1", "MG">>]] :
                    <<q, pool>> \in IngredientQueries \X SUBSET IngredientNames }
    /\ result = Pending

CallMatchIngredient ==
    /\ call.op = "match_ingredient"
    /\ result.raised = "pending"
    /\ result' = Returned(match_ingredient(call.ing, call.ing_dict))
    /\ UNCHANGED <<call, registryVars>>

SpecIngredient == InitIngredient /\ [][CallMatchIngredient]_vars

----------------------------------------------------------------------------
(* Numbers.  A float is the rational n/d it stands for and how it came     *)
(* about: "exact" when the double is that rational, "rounded" when it is   *)
(* the double nearest to it, "approx" when it is the result of arithmetic  *)
(* on doubles that were not exact.                                         *)

Digits == << "0", "1", "2", "3", "4", "5", "6", "7", "8", "9" >>
IsDigit(t) == \E i \in 1..Len(Digits) : Digits[i] = t
DigitValue(t) == (CHOOSE i \in 1..Len(Digits) : Digits[i] = t) - 1

RECURSIVE GCD(_, _)
GCD(a, b) == IF b = 0 THEN a ELSE GCD(b, a % b)

PowerOfTwo(d) == \E i \in 0..30 : d = 2 ^ i

\* The double for the rational n/d that is exact or nearest to it.
Float(n, d) ==
    LET reduced(g) ==
            [n |-> n \div g, d |-> d \div g,
             q |-> IF PowerOfTwo(d \div g) THEN "exact" ELSE "rounded"]
    IN  reduced(IF n = 0 THEN d ELSE GCD(n, d))

Approx(n, d) ==
    LET reduced(g) == [n |-> n \div g, d |-> d \div g, q |-> "approx"]
    IN  reduced(IF n = 0 THEN d ELSE GCD(n, d))

\* x / y for y other than zero.  Division by one returns x, a double
\* divided by itself is one, and the quotient of exact doubles is correctly
\* rounded.
FloatDiv(x, y) ==
    IF y.n = y.d THEN x
    ELSE IF x.n = y.n /\ x.d = y.d /\ x.q # "approx" /\ y.q # "approx"
    THEN Float(1, 1)
    ELSE IF x.q = "exact" /\ y.q = "exact" THEN Float(x.n * y.d, x.d * y.n)
    ELSE Approx(x.n * y.d, x.d * y.n)

\* x * c for a whole number c
FloatMul(x, c) ==
    IF x.q = "exact" THEN Float(x.n * c, x.d) ELSE Approx(x.n * c, x.d)

\* x == y.  Two doubles of different rationals differ; two that are exact
\* or nearest to the same rational are the same double.  The calls drawn
\* below never compare an approximate double with one of the same rational.
FloatEq(x, y) == x.n = y.n /\ x.d = y.d /\ x.q # "approx" /\ y.q # "approx"

\* The default rel_tol of math.isclose and the rel_tol equivalent_strength
\* passes, each as the whole number it is one over.
DefaultRelTol == 1000000000
RelTol == 10000

\* math.isclose(x, y, rel_tol = 1 / per): |x - y| <= max(x, y) / per
isclose(x, y, per) ==
    LET a == x.n * y.d
        b == y.n * x.d
    IN  a = b \/ Max(a, b) - Min(a, b) <= Max(a, b) \div per

RECURSIVE int(_)
int(digits) ==
    IF digits = <<>> THEN 0
    ELSE 10 * int(SubSeq(digits, 1, Len(digits) - 1)) + DigitValue(digits[Len(digits)])

\* float(text) succeeds on digits with at most one point among them, blanks
\* around them allowed; on the other texts over the tokens of Collation it
\* raises ValueError.
IsFloatLiteral(text) ==
    LET literal(s) ==
            /\ \E i \in 1..Len(s) : IsDigit(s[i])
            /\ \A i \in 1..Len(s) : IsDigit(s[i]) \/ s[i] = "."
            /\ Cardinality({ i \in 1..Len(s) : s[i] = "." }) <= 1
    IN  literal(strip(text))

float(text) ==
    LET number(s, p) ==
            Float(int(IF p = 0 THEN s
                      ELSE SubSeq(s, 1, p - 1) \o SubSeq(s, p + 1, Len(s))),
                  10 ^ (IF p = 0 THEN 0 ELSE Len(s) - p))
        stripped(s) == number(s, find(s, "."))
    IN  stripped(strip(text))

----------------------------------------------------------------------------
(* equivalent_strength of match_ndc_ob.py *)

\* The number of digits text has from position i on.
RECURSIVE digits_from(_, _)
digits_from(text, i) ==
    IF i <= Len(text) /\ IsDigit(text[i]) THEN 1 + digits_from(text, i + 1) ELSE 0

\* num_re = r"(?:\d*\.)?\d+" tried at position i: the position of the last
\* token it matches, 0 when it does not match there.
num_re(text, i) ==
    LET ends(k, r) ==
            IF r > 0 THEN i + k + r
            ELSE IF k > 0 THEN i + k - 1
            ELSE 0
        whole(k) ==
            ends(k, IF i + k <= Len(text) /\ text[i + k] = "."
                    THEN digits_from(text, i + k + 1) ELSE 0)
    IN  whole(digits_from(text, i))

\* re.search(num_re, text)
re_search_num(text) ==
    LET first(ends) ==
            IF \E i \in 1..Len(text) : ends[i] # 0
            THEN LET i == CHOOSE i \in 1..Len(text) :
                             ends[i] # 0 /\ \A j \in 1..(i - 1) : ends[j] = 0
                 IN  [matched |-> TRUE, group |-> SubSeq(text, i, ends[i])]
            ELSE [matched |-> FALSE, group |-> <<>>]
    IN  first([i \in 1..Len(text) |-> num_re(text, i)])

\* re.finditer(r"(?<!/)" + num_re, text) from position i on: the spans of
\* the matches, left to right.  A position the lookbehind rejects is passed
\* over and the pattern is tried at the next one.
RECURSIVE re_finditer_spans(_, _)
re_finditer_spans(text, i) ==
    LET from(e) ==
            IF e # 0 /\ (i = 1 \/ text[i - 1] # "/")
            THEN << <<i, e>> >> \o re_finditer_spans(text, e + 1)
            ELSE re_finditer_spans(text, i + 1)
    IN  IF i > Len(text) THEN <<>> ELSE from(num_re(text, i))

\* number.group(0) of each match
re_finditer_num(text, i) ==
    LET groups(spans) ==
            [k \in 1..Len(spans) |-> SubSeq(text, spans[k][1], spans[k][2])]
    IN  groups(re_finditer_spans(text, i))

\* A pattern that matches no text
re_match_ratio_none(text) == [matched |-> FALSE, m1 |-> <<>>, m2 |-> <<>>]

\* re.match(f"^({num_re}).*/({num_re})", text): a number at the start of the
\* text, and the number after the last slash that has one after it
re_match_ratio(text) ==
    LET groups(ends, p) ==
            [matched |-> TRUE, m1 |-> SubSeq(text, 1, ends[1]),
             m2 |-> SubSeq(text, p + 1, ends[p + 1])]
        after(ends, slashes) ==
            IF ends[1] = 0 \/ slashes = {}
            THEN [matched |-> FALSE, m1 |-> <<>>, m2 |-> <<>>]
            ELSE groups(ends, CHOOSE x \in slashes : \A y \in slashes : y <= x)
        numbers(ends) ==
            after(ends, { p \in (ends[1] + 1)..Len(text) :
                            text[p] = "/" /\ ends[p + 1] # 0 })
    IN  numbers([i \in 1..(Len(text) + 1) |-> num_re(text, i)])

\* The test for grams that every text passes
HasGM_any(text) == text = text

\* "GM" in text and "ug" in text: the words that have the letters in them
HasGM(text) == \E i \in 1..Len(text) : text[i] \in {"GM"}
Has_ug(text) == \E i \in 1..Len(text) : text[i] \in {"ug"}

Answer(b) == [raised |-> NoError, value |-> b]
Error(e) == [raised |-> e, value |-> FALSE]

\* ob_strength is a text here: equivalent_composition passes a value of
\* ob_data, never None.
equivalent_strength(ob_strength, ndc_strength, ndc_unit) ==
    LET close(number, num, ndc_num, ndc_ratio) ==
            \/ ndc_strength = number
            \/ isclose(num, ndc_num, DefaultRelTol)
            \/ FloatEq(num, ndc_ratio)
            \/ /\ HasGM(ob_strength) \/ Has_ug(ndc_unit)
               /\ \/ isclose(FloatMul(num, 1000), ndc_ratio, RelTol)
                  \/ isclose(FloatMul(num, 1000), ndc_num, RelTol)
            \/ /\ Len(ndc_unit) >= 2 /\ ndc_unit[1] = "g" /\ ndc_unit[2] = "/"
               /\ isclose(FloatDiv(num, Float(1000, 1)), ndc_num, RelTol)
            \/ /\ \E i \in 1..Len(ob_strength) : ob_strength[i] = "%"
               /\ \/ isclose(FloatMul(num, 10), ndc_ratio, RelTol)
                  \/ isclose(FloatMul(num, 10), ndc_num, RelTol)
        as_ratio(r, ndc_ratio) ==
            IF ~r.matched THEN Answer(FALSE)
            ELSE IF float(r.m2).n = 0 THEN Error("ZeroDivisionError")
            ELSE Answer(isclose(FloatDiv(float(r.m1), float(r.m2)), ndc_ratio, RelTol))
        each_number(numbers, ndc_num, ndc_ratio) ==
            IF \E i \in 1..Len(numbers) :
                  close(numbers[i], float(numbers[i]), ndc_num, ndc_ratio)
            THEN Answer(TRUE)
            ELSE as_ratio(re_match_ratio(ob_strength), ndc_ratio)
        per_unit(m, ndc_num) ==
            IF m.matched /\ float(m.group).n = 0 THEN Error("ZeroDivisionError")
            ELSE each_number(re_finditer_num(ob_strength, 1), ndc_num,
                             IF m.matched THEN FloatDiv(ndc_num, float(m.group))
                             ELSE ndc_num)
    IN  IF ~IsFloatLiteral(ndc_strength) THEN Error("ValueError")
        ELSE per_unit(re_search_num(ndc_unit), float(ndc_strength))

----------------------------------------------------------------------------
(* Calls of equivalent_strength: strength texts as the Orange Book has     *)
(* them, and the number and unit of an NDC record.                         *)

ObStrengths ==
    { <<"1", "MG">>,
      <<"2", "MG">>,
      <<"1", "GM">>,
      <<"1", ".", "5", "MG">>,
      <<"3", "0", "0", " ", "UNITS", "/", "3", "ML">>,
      <<"1", "MG", "/", "2", "ML">>,
      <<"EQ", " ", "1", "MG", " ", "BASE", "/", "2", "ML">>,
      <<"1", "0", "MG", "/", "2", "5", "ML">>,
      <<"EQ", " ", "4", "0", "0", "MCG", " ", "BASE", "/", "1", "0", "0", "ML", " ", "(", "EQ", " ", "4", "MCG", " ", "BASE", "/", "ML", ")">>,
      <<"0", ".", "0", "0", "4", "%">>,
      <<"2", "MG", "/", "0", "ML">>,
      <<"1", "MG", "/", "ML">> }

NdcStrengths ==
    { <<"1">>,
      <<"2">>,
      <<"5">>,
      <<"1", "0", "0">>,
      <<"1", "0", "0", "0">>,
      <<"2", "0", "0", "0">>,
      <<"1", "5", "0", "0">>,
      <<"0", ".", "5">>,
      <<"0", ".", "0", "4">>,
      <<"0">>,
      <<"N", "/", "A">> }

NdcUnits ==
    { <<"mg", "/", "1">>,
      <<"mg">>,
      <<"mg", "/", "mL">>,
      <<"ug", "/", "mL">>,
      <<"g", "/", "1">>,
      <<"U", "/", "2", "mL">>,
      <<"mg", "/", "0", "mL">> }

InitStrength ==
    /\ RegistryAtRest
    /\ call \in { [op |-> "equivalent_strength", ob_strength |-> a,
                   ndc_strength |-> b, ndc_unit |-> c] :
                    <<a, b, c>> \in ObStrengths \X NdcStrengths \X NdcUnits }
    /\ result = Pending

\* equivalent_strength(ob_strength, ndc_strength, ndc_unit), and the matches
\* its loop goes through
CallEquivalentStrength ==
    /\ call.op = "equivalent_strength"
    /\ result.raised = "pending"
    /\ LET parts(r, spans) ==
               [raised |-> r.raised, value |-> r.value, spans |-> spans]
       IN  result' =
             parts(equivalent_strength(call.ob_strength, call.ndc_strength,
                                       call.ndc_unit),
                   re_finditer_spans(call.ob_strength, 1))
    /\ UNCHANGED <<call, registryVars>>

SpecStrength == InitStrength /\ [][CallEquivalentStrength]_vars

----------------------------------------------------------------------------
(* comp_map, equivalent_composition and equivalent of match_ndc_ob.py      *)

NdcFormulationTuple(ingredient, form_route, strength, unit) ==
    [type |-> "ndc.FormulationTuple",
     fields |-> <<ingredient, form_route, strength, unit>>]

\* The list of (ingredient, strength) or (ingredient, strength, unit)
\* tuples: zip stops at the shortest of the split fields.
comp_map(tup) ==
    LET zip(cols, n) == [i \in 1..n |-> [e \in 1..Len(cols) |-> cols[e][i]]]
        shortest(cols) ==
            zip(cols, CHOOSE k \in 1..Len(cols[1]) :
                         /\ \A e \in 1..Len(cols) : k <= Len(cols[e])
                         /\ \E e \in 1..Len(cols) : k = Len(cols[e]))
        stripped(parts) == [i \in 1..Len(parts) |-> strip(parts[i])]
        columns(elements) ==
            shortest([e \in 1..Len(elements) |-> stripped(split(elements[e], ";"))])
    IN  columns(<<tup.fields[1]>> \o SubSeq(tup.fields, 3, Len(tup.fields)))

\* dict(pairs)
RECURSIVE dict(_)
dict(pairs) ==
    IF pairs = <<>> THEN [k \in {} |-> <<>>]
    ELSE LET last_pair == pairs[Len(pairs)]
         IN  Put(dict(SubSeq(pairs, 1, Len(pairs) - 1)), last_pair[1], last_pair[2])

\* d after d.pop(k)
pop(d, k) == [x \in (DOMAIN d) \ {k} |-> d[x]]

\* The loop of equivalent_composition from the i-th tuple of ndc_comps on.
\* Next to what the function returns or raises, the result records the
\* calls of match_ingredient it made, the number of tuples it got through
\* and the names left in ob_data.
RECURSIVE composition_loop(_, _, _, _)
composition_loop(ob_data, ndc_comps, i, calls) ==
    LET stop(e, names, made) ==
            [raised |-> e, value |-> FALSE, calls |-> made,
             done |-> i - 1, left |-> names]
        compared(same, rest, made) ==
            IF same.raised # NoError THEN stop(same.raised, DOMAIN rest, made)
            ELSE IF ~same.value THEN stop(NoError, DOMAIN rest, made)
            ELSE composition_loop(rest, ndc_comps, i + 1, made)
        matched(match_ing, strength, unit, made) ==
            IF match_ing.none THEN stop(NoError, DOMAIN ob_data, made)
            ELSE IF /\ match_ing.name = <<"TAVABOROLE">>
                    /\ ob_data[match_ing.name] = <<"5", "%">>
                    /\ strength = <<"4", "3", ".", "5">>
            THEN composition_loop(pop(ob_data, match_ing.name), ndc_comps, i + 1, made)
            ELSE compared(equivalent_strength(ob_data[match_ing.name], strength, unit),
                          pop(ob_data, match_ing.name), made)
        looked_up(ing, match_ing) ==
            matched(match_ing, ndc_comps[i][2], ndc_comps[i][3],
                    Append(calls, [ing |-> ing, pool |-> DOMAIN ob_data,
                                   found |-> match_ing]))
    IN  IF i > Len(ndc_comps)
        THEN [raised |-> NoError, value |-> (DOMAIN ob_data = {}), calls |-> calls,
              done |-> i - 1, left |-> DOMAIN ob_data]
        ELSE looked_up(ndc_comps[i][1], match_ingredient(ndc_comps[i][1], ob_data))

\* equivalent_composition that does not look at what is left in ob_data
equivalent_composition_any_left(ob_comps, ndc_comps) ==
    LET any_left(r) ==
            IF r.raised = NoError /\ r.done = Len(ndc_comps)
            THEN [r EXCEPT !.value = TRUE] ELSE r
    IN  any_left(composition_loop(dict(ob_comps), ndc_comps, 1, <<>>))

equivalent_composition(ob_comps, ndc_comps) ==
    composition_loop(dict(ob_comps), ndc_comps, 1, <<>>)

\* The branch of equivalent for an ob.FormulationTuple
equivalent_formulation(ob_form, ndc_form) ==
    LET both(same_form, same_composition) ==
            IF same_form.raised # NoError THEN Error(same_form.raised)
            ELSE IF ~same_form.value THEN Answer(FALSE)
            ELSE IF same_composition.raised # NoError
            THEN Error(same_composition.raised)
            ELSE IF ~same_composition.value THEN Answer(FALSE)
            ELSE Answer(TRUE)
    IN  both(equivalent_form(ob_form.fields[2], ndc_form.fields[2]),
             equivalent_composition(comp_map(ob_form), comp_map(ndc_form)))

\* equivalent with all() where it has any()
equivalent_every(ob_form, ndc_form) ==
    LET every(each) ==
            IF \E r \in each : r.raised # NoError
            THEN Error((CHOOSE r \in each : r.raised # NoError).raised)
            ELSE Answer(\A r \in each : r.value)
    IN  IF ob_form.type \in {"FormulationTuple", "EquivalenceClass"}
        THEN every({ equivalent_formulation(ft, ndc_form) :
                       ft \in IF ob_form.type = "FormulationTuple"
                              THEN {ob_form} ELSE ob_form.form_tuples })
        ELSE Error("TypeError")

\* The members of a class are FormulationTuples, so the inner calls take the
\* first branch.  any() is given a list: every member is compared, and an
\* error of one comparison is the error of the call.
equivalent(ob_form, ndc_form) ==
    LET any(each) ==
            IF \E r \in each : r.raised # NoError
            THEN Error((CHOOSE r \in each : r.raised # NoError).raised)
            ELSE Answer(\E r \in each : r.value)
    IN  IF ob_form.type = "FormulationTuple"
        THEN equivalent_formulation(ob_form, ndc_form)
        ELSE IF ob_form.type = "EquivalenceClass"
        THEN any({ equivalent_formulation(ft, ndc_form) : ft \in ob_form.form_tuples })
        ELSE Error("TypeError")

----------------------------------------------------------------------------
(* Calls of equivalent: with an Orange Book FormulationTuple, and with a   *)
(* class of a registry that has ingested some rows.                        *)

TabletOral == <<"TABLET", ";", "ORAL">>

ObTuples ==
    { FormulationTuple(<<"A">>, TabletOral, <<"1", "MG">>),
      FormulationTuple(<<"A", " ", "B">>, <<"CAPSULE", ";", "ORAL">>, <<"1", "GM">>),
      FormulationTuple(<<"A", ";", " ", "B">>, TabletOral,
                       <<"1", "MG", ";", " ", "2", "MG">>),
      FormulationTuple(<<"A", " ", "B", ";", " ", "A", " ", "C">>, TabletOral,
                       <<"1", "MG", ";", " ", "2", "MG">>),
      FormulationTuple(<<"A", ";", " ", "A", " ", "B">>, TabletOral,
                       <<"1", "MG", ";", " ", "2", "MG">>),
      FormulationTuple(<<"A">>, <<"INJECTABLE", ";", "INJECTION">>,
                       <<"2", "MG", "/", "0", "ML">>),
      FormulationTuple(<<"TAVABOROLE">>, <<"SOLUTION", ";", "TOPICAL">>, <<"5", "%">>),
      FormulationTuple(<<"A", ";", " ", "A">>, TabletOral,
                       <<"1", "MG", ";", " ", "2", "MG">>) }

PerOne == <<"mg", "/", "1">>

NdcTuples ==
    { NdcFormulationTuple(<<"A">>, TabletOral, <<"1">>, PerOne),
      NdcFormulationTuple(<<"A", " ", "B">>, TabletOral, <<"1", "0", "0", "0">>, PerOne),
      NdcFormulationTuple(<<"A", ";", " ", "B">>, TabletOral, <<"1", ";", " ", "2">>,
                          PerOne \o <<";", " ">> \o PerOne),
      NdcFormulationTuple(<<"B", ";", " ", "A">>,
                          <<"TABLET", ",", " ", "FILM", " ", "COATED", ";", "ORAL">>,
                          <<"2", ";", " ", "1">>, PerOne \o <<";", " ">> \o PerOne),
      NdcFormulationTuple(<<"A", ";", " ", "A">>, TabletOral, <<"1", ";", " ", "1">>,
                          PerOne \o <<";", " ">> \o PerOne),
      NdcFormulationTuple(<<"B", ";", " ", "A">>, TabletOral,
                          <<"N", "/", "A", ";", " ", "1">>,
                          PerOne \o <<";", " ">> \o PerOne),
      NdcFormulationTuple(<<"A">>, <<"SOLUTION", ";", "INTRAVENOUS">>, <<"1">>,
                          <<"mg", "/", "mL">>),
      NdcFormulationTuple(<<"TAVABOROLE">>, <<"SOLUTION", ";", "TOPICAL">>,
                          <<"4", "3", ".", "5">>, <<"mg", "/", "mL">>),
      NdcFormulationTuple(<<"A">>, TabletOral, <<"N", "/", "A">>, PerOne),
      NdcFormulationTuple(<<"A">>, <<"TABLET">>, <<"1">>, PerOne),
      NdcFormulationTuple(<<"A">>, TabletOral, <<"2">>, PerOne),
      NdcFormulationTuple(<<"A">>, TabletOral, <<"1">>, <<"mg", "/", "0", "mL">>) }

\* The rows the registry may have ingested: three formulations under two
\* applications.
ClassTuples ==
    { FormulationTuple(<<"A">>, TabletOral, <<"1", "MG">>),
      FormulationTuple(<<"A", " ", "B">>, <<"CAPSULE", ";", "ORAL">>, <<"1", "GM">>),
      FormulationTuple(<<"A">>, TabletOral, <<"2", "MG", "/", "0", "ML">>) }
ClassRows ==
    { [form_tuple |-> t, app_tuple |-> AppKey(j)] :
        <<t, j>> \in { p \in ClassTuples \X (1..2) : p[2] = 1 \/ p[1].fields[1] = <<"A">> } }
Runs == UNION { [1..n -> ClassRows] : n \in 0..MaxRun }

\* The state after the calls of add for the rows of run, as Add leaves it.
RECURSIVE Ingest(_)
Ingest(run) ==
    LET added(before, r, res) ==
            [registry |-> res.reg, ret |-> res.ret, branch |-> res.branch,
             taken |-> before.taken \cup {res.branch},
             allocated |-> before.allocated \cup Ids(res.reg),
             firstRet |-> IF r \in DOMAIN before.firstRet THEN before.firstRet
                          ELSE Put(before.firstRet, r, res.ret)]
        after(before, r) == added(before, r, add(before.registry, r))
    IN  IF run = <<>>
        THEN [registry |-> EmptyRegistry, ret |-> None, branch |-> "none",
              taken |-> {}, allocated |-> {}, firstRet |-> EmptyDict]
        ELSE after(Ingest(SubSeq(run, 1, Len(run) - 1)), run[Len(run)])

\* The registry has ingested run and, when bare, has had a class without
\* keys constructed after that.
HasIngested(run, bare) ==
    LET holds(st, R) ==
            /\ registry = R
            /\ ret = st.ret
            /\ branch = st.branch
            /\ taken = st.taken
            /\ allocated = st.allocated \cup Ids(R)
            /\ firstRet = st.firstRet
            /\ log = run
            /\ edges = Range(run)
            /\ nIngest = Len(run)
            /\ last = IF run = <<>> THEN "start" ELSE "add"
            /\ file = NoFile
            /\ summarized = EmptyRegistry
            /\ fileEdges = {}
            /\ snapshotIds = {}
            /\ second = EmptyRegistry
            /\ replayed = {}
        ingested(st) ==
            holds(st, IF bare THEN EquivalenceClass(st.registry, <<>>, <<>>, NoId)
                      ELSE st.registry)
    IN  ingested(Ingest(run))

InitEquivalent ==
    /\ result = Pending
    /\ \/ /\ RegistryAtRest
          /\ call \in { [op |-> "equivalent", ob_form |-> a, ndc_form |-> b] :
                          <<a, b>> \in ObTuples \X NdcTuples }
       \/ \E run \in Runs, bare \in BOOLEAN :
             /\ HasIngested(run, bare)
             /\ call \in { [op |-> "equivalent",
                            ob_form |-> [type |-> "EquivalenceClass", self |-> c,
                                         form_tuples |-> registry.objects[c].form_tuples],
                            ndc_form |-> b] :
                             <<c, b>> \in Live(registry) \X NdcTuples }

\* equivalent(ob_form, ndc_form) for a FormulationTuple, and the two
\* comparisons it is made of
CallEquivalentTuple ==
    /\ call.op = "equivalent"
    /\ call.ob_form.type = "FormulationTuple"
    /\ result.raised = "pending"
    /\ LET parts(r, form, composition) ==
               [raised |-> r.raised, value |-> r.value,
                form |-> form, composition |-> composition]
       IN  result' =
             parts(equivalent(call.ob_form, call.ndc_form),
                   equivalent_form(call.ob_form.fields[2], call.ndc_form.fields[2]),
                   equivalent_composition(comp_map(call.ob_form),
                                          comp_map(call.ndc_form)))
    /\ UNCHANGED <<call, registryVars>>

\* equivalent(ob_form, ndc_form) for a class, and equivalent for each of its
\* form_tuples
CallEquivalentClass ==
    /\ call.op = "equivalent"
    /\ call.ob_form.type = "EquivalenceClass"
    /\ result.raised = "pending"
    /\ LET parts(r, members) ==
               [raised |-> r.raised, value |-> r.value, members |-> members]
       IN  result' =
             parts(equivalent(call.ob_form, call.ndc_form),
                   [ft \in call.ob_form.form_tuples |-> equivalent(ft, call.ndc_form)])
    /\ UNCHANGED <<call, registryVars>>

NextEquivalent == CallEquivalentTuple \/ CallEquivalentClass

SpecEquivalent == InitEquivalent /\ [][NextEquivalent]_vars

----------------------------------------------------------------------------
(* Properties of the registry *)

KeysOf(r) == {row_form_tuple(r), row_app_tuple(r)}

\* The keys reachable from the keys S over the rows E.
RECURSIVE Closure(_, _)
Closure(S, E) ==
    LET T == S \cup UNION { KeysOf(r) : r \in { e \in E : KeysOf(e) \cap S # {} } }
    IN  IF T = S THEN S ELSE Closure(T, E)

\* The connected components of the graph whose edges are the rows E.
Components(E) == { Closure({k}, E) : k \in UNION { KeysOf(r) : r \in E } }

SameLiveClass(R, k1, k2) ==
    \E c \in Live(R) : k1 \in Members(R, c) /\ k2 \in Members(R, c)

\* The step ingests row r.
Ingested(r) == log' = Append(log, r)

\* The maps and the membership sets of R agree, and the maps point to live
\* classes only.
Consistent(R) ==
    /\ \A c \in Live(R) :
         /\ \A k \in FormKeys : (get(R, k) = c) <=> (k \in R.objects[c].form_tuples)
         /\ \A k \in AppKeys : (get(R, k) = c) <=> (k \in R.objects[c].app_tuples)
    /\ \A k \in (DOMAIN R.form_tuple_classes) \cup (DOMAIN R.app_tuple_classes) :
         LET c == get(R, k)
         IN  /\ c \in 1..Len(R.objects)
             /\ R.objects[c].eq_id \in LiveIds(R)
             /\ ODValue(R.eq_classes, R.objects[c].eq_id) = c

\* id -> membership of the live classes of R.
ClassView(R) ==
    { [eq_id |-> R.eq_classes[i].key,
       form_tuples |-> R.objects[R.eq_classes[i].value].form_tuples,
       app_tuples |-> R.objects[R.eq_classes[i].value].app_tuples] :
      i \in 1..Len(R.eq_classes) }

\* C1: the member sets of the live classes are exactly the connected
\* components of the graph whose edges are the ingested rows' (form key,
\* app key) pairs, so two keys are in the same live class exactly when they
\* are connected in that graph.
C1_PartitionIsClosure ==
    /\ Partition(registry) = Components(edges)
    /\ Cardinality(Partition(registry)) = Cardinality(Live(registry))

\* A merge has joined two form keys that no row carries together, while
\* another class stays apart.
C1_Witness ==
    /\ last = "add" /\ branch = "merge"
    /\ Cardinality(Live(registry)) = 2
    /\ \E f1, f2 \in FormKeys : f1 # f2 /\ SameLiveClass(registry, f1, f2)

\* C2: no form key and no app key is a member of two live classes.
C2_LiveClassesDisjoint ==
    \A c1, c2 \in Live(registry) :
        c1 # c2 =>
            /\ registry.objects[c1].form_tuples
                 \cap registry.objects[c2].form_tuples = {}
            /\ registry.objects[c1].app_tuples
                 \cap registry.objects[c2].app_tuples = {}

\* Two live classes, one of them holding the keys of a class it absorbed.
C2_Witness ==
    /\ "merge" \in taken
    /\ \E c1, c2 \in Live(registry) :
         /\ c1 # c2
         /\ Cardinality(registry.objects[c1].app_tuples) >= 2

\* C3: the key-to-class maps and the membership sets agree and every class
\* a map refers to is live under its own eq_id.
C3_MapsAgreeWithMembers == Consistent(registry)

\* Right after a merge, with the absorbed instance still holding its keys.
C3_Witness ==
    /\ last = "add" /\ branch = "merge"
    /\ \E o \in 1..Len(registry.objects) :
         /\ o \notin Live(registry)
         /\ registry.objects[o].form_tuples # {}

\* C4: once a second process has ingested the same rows, each once, in any
\* order, its partition of the keys is the partition of the first.
C4_OrderIndependent ==
    (replayed = 1..Len(log)) => Partition(second) = Partition(registry)

\* The same rows in another order, a merge among them, and different
\* surviving ids.
C4_Witness ==
    /\ replayed = 1..Len(log)
    /\ "merge" \in taken
    /\ LiveIds(second) # LiveIds(registry)
    /\ Partition(second) = Partition(registry)

\* C5: an ingest that finds the form key owned by F and the app key owned by
\* a different class A leaves F live under its id with the unions of both
\* memberships, removes A's id, maps A's keys to F and returns F.
C5_MergeOutcome ==
    [][ \A r \in Rows :
          LET F == get(registry, row_form_tuple(r))
              A == get(registry, row_app_tuple(r))
          IN  (Ingested(r) /\ F # None /\ A # None /\ F # A) =>
                /\ registry'.raised = NoError
                /\ ret' = F
                /\ F \in Live(registry')
                /\ registry'.objects[F].eq_id = registry.objects[F].eq_id
                /\ registry'.objects[F].form_tuples =
                     registry.objects[F].form_tuples
                       \cup registry.objects[A].form_tuples
                /\ registry'.objects[F].app_tuples =
                     registry.objects[F].app_tuples
                       \cup registry.objects[A].app_tuples
                /\ LiveIds(registry') =
                     LiveIds(registry) \ {registry.objects[A].eq_id}
                /\ Live(registry') = Live(registry) \ {A}
                /\ \A k \in Members(registry, A) : get(registry', k) = F
      ]_vars

\* A merge has just made a class of at least four keys.
C5_Witness ==
    /\ last = "add" /\ branch = "merge" /\ ret # None
    /\ Cardinality(Members(registry, ret)) >= 4

\* C6: a class created by an ingest gets an id greater than every id
\* allocated before in this registry, and no two instances share an id.
C6_IdsNeverReused ==
    [][ \A r \in Rows :
          (Ingested(r) /\ Len(registry'.objects) > Len(registry.objects)) =>
            LET new == Len(registry'.objects)
            IN  /\ registry'.objects[new].eq_id # NoId
                /\ \A i \in allocated : registry'.objects[new].eq_id > i
                /\ \A o \in 1..Len(registry.objects) :
                     registry'.objects[o].eq_id # registry'.objects[new].eq_id
      ]_vars

\* A class has just been created after another one was absorbed.
C6_Witness ==
    /\ last = "add" /\ branch = "new"
    /\ \E i \in allocated : i \notin LiveIds(registry)

\* C7 as stated: ingesting a row again changes nothing and returns the class
\* that was returned when the row was first ingested.
C7_SameClassAsFirst ==
    [][ \A r \in Rows :
          (Ingested(r) /\ r \in DOMAIN firstRet) =>
            /\ registry' = registry
            /\ ret' = firstRet[r]
      ]_vars

\* C7 as amended: ingesting a row again changes nothing and returns the live
\* class that owns both keys, which is the class returned the first time
\* unless that class has been absorbed since.
C7_RepeatChangesNothing ==
    [][ \A r \in Rows :
          (Ingested(r) /\ r \in edges) =>
            /\ registry' = registry
            /\ ret' # None
            /\ ret' \in Live(registry)
            /\ ret' = get(registry, row_form_tuple(r))
            /\ ret' = get(registry, row_app_tuple(r))
            /\ (r \in DOMAIN firstRet /\ firstRet[r] \in Live(registry))
                 => ret' = firstRet[r]
      ]_vars

\* A row has just been ingested for the second time, other rows in between.
C7_Witness ==
    /\ last = "add" /\ branch = "same"
    /\ Len(log) >= 3
    /\ \E i \in 1..(Len(log) - 2) : log[i] = log[Len(log)]

\* C8: right after an ingest returns C both keys of the row look up to C,
\* which is live; and the keys of every ingested row stay owned by a live
\* class.
C8_LookupNeverNone ==
    /\ (last = "add" /\ registry.raised = NoError) =>
         LET r == log[Len(log)]
         IN  /\ ret # None
             /\ get(registry, row_form_tuple(r)) = ret
             /\ get(registry, row_app_tuple(r)) = ret
             /\ ret \in Live(registry)
    /\ \A r \in edges :
         /\ get(registry, row_form_tuple(r)) \in Live(registry)
         /\ get(registry, row_app_tuple(r)) \in Live(registry)

\* The class first returned for some row has been absorbed since.
C8_Witness ==
    /\ last = "add"
    /\ \E r \in DOMAIN firstRet :
         /\ firstRet[r] \notin Live(registry)
         /\ get(registry, row_app_tuple(r)) \in Live(registry)

\* C9: no sequence of ingests raises the data-integrity errors of
\* add_form_tuple, add_app_tuple and append.
C9_NoIntegrityError ==
    registry.raised \notin { "Multiple equivalence classes",
                             "Neither form nor app tuple matched" }

\* Ingests have taken the new case, the merge case and one of the cases
\* that only append.
C9_Witness ==
    /\ last = "add" /\ registry.raised = NoError
    /\ "merge" \in taken
    /\ Cardinality(taken \cap {"form", "app", "same"}) >= 1

\* C10: loading the written list into an empty registry gives the live
\* classes of the registry that was written: the same ids with the same
\* form keys and app keys, and maps that agree with them.
C10_RoundTrip ==
    [][ (last' = "load_summary" /\ registry = EmptyRegistry /\ file.exists) =>
          /\ registry'.raised = NoError
          /\ ClassView(registry') = ClassView(summarized)
          /\ Consistent(registry')
      ]_vars

\* A registry loaded from a list written after a merge: ids with a gap and
\* instances other than those of the registry that was written.
C10_Witness ==
    /\ last = "load_summary" /\ log = <<>> /\ registry.raised = NoError
    /\ Cardinality(Live(registry)) = 2
    /\ ClassView(registry) = ClassView(summarized)
    /\ registry.objects # summarized.objects
    /\ \E i \in 0..MaxIngest : i \notin LiveIds(registry) /\ (i + 1) \in LiveIds(registry)

\* C11: a class created by an ingest into a registry that was loaded from
\* the file never gets an id that had been allocated, when the file was
\* written, in the registry that wrote it.
C11_NoReuseAcrossSnapshot ==
    [][ \A r \in Rows :
          (Ingested(r) /\ Len(registry'.objects) > Len(registry.objects)) =>
            registry'.objects[Len(registry'.objects)].eq_id \notin snapshotIds
      ]_vars

\* The instances of R that own a key.
Owners(R) ==
    { R.form_tuple_classes[k] : k \in DOMAIN R.form_tuple_classes }
      \cup { R.app_tuple_classes[k] : k \in DOMAIN R.app_tuple_classes }

\* C12: all() lists exactly the live classes, each once, in strictly
\* increasing order of eq_id, and so does the list summarize writes.
C12_AllInIdOrder ==
    /\ \A i, j \in 1..Len(all(registry)) :
         i < j => registry.objects[all(registry)[i]].eq_id
                    < registry.objects[all(registry)[j]].eq_id
    /\ Range(all(registry)) = Owners(registry)
    /\ \A i \in 1..Len(all(registry)) :
         registry.eq_classes[i].key = registry.objects[all(registry)[i]].eq_id
    /\ file.exists =>
         \A i, j \in 1..Len(file.data) :
            i < j => file.data[i].eq_id < file.data[j].eq_id

\* After a merge, two live classes whose ids are not consecutive.
C12_Witness ==
    /\ "merge" \in taken
    /\ Len(all(registry)) = 2
    /\ registry.objects[all(registry)[2]].eq_id
         > registry.objects[all(registry)[1]].eq_id + 1

----------------------------------------------------------------------------
(* Properties of form_tuple *)

\* The entries of a field of a key: the texts between its semicolons.
Entries(field) ==
    LET parts == split(field, ";")
    IN  [i \in 1..Len(parts) |-> strip(parts[i])]

\* How often the pair p occurs in the list of pairs s.
Count(s, p) == Cardinality({ i \in 1..Len(s) : s[i] = p })

SourcePairs(c) == [i \in 1..Len(c.ingredients) |-> <<c.ingredients[i], c.elements[i]>>]
KeyPairs(k) ==
    LET ings == Entries(k.fields[1])
        strs == Entries(k.fields[3])
    IN  [i \in 1..Min(Len(ings), Len(strs)) |-> <<ings[i], strs[i]>>]

FormTupleDone == call.op = "form_tuple" /\ result.raised # "pending"

\* The record lists (ingredient, strength) pairs, each strength written as
\* one product has it.
ListsPlainPairs ==
    /\ ListsPairs(call)
    /\ \A i \in 1..Len(call.elements) : call.elements[i] \in PlainStrengths

\* C13: a record that lists (ingredient, strength) pairs and the record that
\* lists two of the pairs the other way round produce the identical
\* FormulationTuple, and the pairs of the key are the pairs of the record.
C13_CanonicalOrder ==
    (FormTupleDone /\ ListsPlainPairs) =>
        /\ result.other = [raised |-> result.raised, value |-> result.value]
        /\ result.raised = NoError =>
              \A p \in Range(SourcePairs(call)) :
                 Count(KeyPairs(result.value), p) = Count(SourcePairs(call), p)

\* C14 as stated: form_tuple raises, or the key it returns has as many
\* ingredient entries as the record names ingredients and as many strength
\* entries.
C14_CountsAgree ==
    FormTupleDone =>
        \/ result.raised \in {"AssertionError", "RuntimeError"}
        \/ /\ result.raised = NoError
           /\ Len(Entries(result.value.fields[1])) = Len(call.ingredients)
           /\ Len(Entries(result.value.fields[1]))
                 = Len(Entries(result.value.fields[3]))

\* C14: form_tuple raises, or the key it returns has as many ingredient
\* entries as strength entries; these are as many as the record names
\* ingredients when it names two or more, and when it names one they are
\* all that one ingredient, once for every strength parse_strengths found.
C14_CountsAgreeUnlessSingle ==
    FormTupleDone =>
        \/ result.raised \in {"AssertionError", "RuntimeError"}
        \/ /\ result.raised = NoError
           /\ Len(Entries(result.value.fields[1]))
                 = Len(Entries(result.value.fields[3]))
           /\ Len(call.ingredients) > 1 =>
                 Len(Entries(result.value.fields[1])) = Len(call.ingredients)
           /\ Len(call.ingredients) = 1 =>
                 \A i \in 1..Len(Entries(result.value.fields[1])) :
                    Entries(result.value.fields[1])[i] = call.ingredients[1]

\* A record naming one ingredient came back as a key of two entries.
C14_Witness ==
    /\ FormTupleDone
    /\ result.raised = NoError
    /\ Len(call.ingredients) = 1
    /\ Len(Entries(result.value.fields[1])) = 2
    /\ Len(Entries(result.value.fields[3])) = 2

----------------------------------------------------------------------------
(* Properties of equivalent_form *)

FormDone == call.op = "equivalent_form" /\ result.raised = NoError

ObForm == form_route_words(split_once(call.ob_fr, ";")[1])
ObRoute == form_route_words(split_once(call.ob_fr, ";")[2])
NdcForm == form_route_words(split_once(call.ndc_fr, ";")[1])
NdcRoute == form_route_words(split_once(call.ndc_fr, ";")[2])

\* C17 as stated: INJECTION among both sides' route words, INJECTION among
\* one side's route words and the other side's form words, or INHALATION
\* among one side's route words and the other side's form words, makes
\* equivalent_form true.
C17_CrossTerms ==
    FormDone =>
      ( ( \/ <<"INJECTION">> \in ObRoute \cap NdcRoute
          \/ <<"INJECTION">> \in ObRoute \cap NdcForm
          \/ <<"INJECTION">> \in NdcRoute \cap ObForm
          \/ <<"INHALATION">> \in ObRoute \cap NdcForm
          \/ <<"INHALATION">> \in NdcRoute \cap ObForm )
        => result.value = TRUE )

\* C17: INJECTION among the route words of the first argument, the Orange
\* Book side, and among the route words or the form words of the second, or
\* INHALATION among the route words of the first and the form words of the
\* second, makes equivalent_form true whatever the other words are.
C17_OrangeBookRoute ==
    FormDone =>
      ( ( \/ <<"INJECTION">> \in ObRoute \cap NdcRoute
          \/ <<"INJECTION">> \in ObRoute \cap NdcForm
          \/ <<"INHALATION">> \in ObRoute \cap NdcForm )
        => result.value = TRUE )

\* A cross term alone decided: the routes of the two sides share no word.
C17_Witness ==
    /\ FormDone
    /\ result.value = TRUE
    /\ <<"INHALATION">> \in ObRoute \cap NdcForm
    /\ ObRoute \cap NdcRoute = {}

NoCrossTerm ==
    /\ <<"INJECTION">> \notin ObRoute \cap NdcRoute
    /\ <<"INJECTION">> \notin ObRoute \cap NdcForm
    /\ <<"INHALATION">> \notin ObRoute \cap NdcForm

\* C18: when no special case applies, equivalent_form is true exactly when
\* the mapped route words of the two sides intersect and their mapped form
\* words intersect, and it returns the same for the texts that have one
\* token replaced by its image in the synonym table.
C18_Intersections ==
    FormDone =>
        /\ NoCrossTerm =>
              (result.value = TRUE <=>
                 (ObRoute \cap NdcRoute # {} /\ ObForm \cap NdcForm # {}))
        /\ \A r \in result.images : r = Returned(result.value)

\* The two sides agree through the synonym table only: their form texts
\* share no word as written.
C18_Witness ==
    /\ FormDone
    /\ NoCrossTerm
    /\ result.value = TRUE
    /\ result.images # {}
    /\ re_findall_words(split_once(call.ob_fr, ";")[1])
          \cap re_findall_words(split_once(call.ndc_fr, ";")[1]) = {}

----------------------------------------------------------------------------
(* Properties of match_ingredient *)

IngredientDone == call.op = "match_ingredient" /\ result.raised = NoError

\* The names of the pool that have at least d words and agree with the
\* query on its first d words.
Candidates(query, pool, d) ==
    { n \in pool :
        /\ Len(split(query, " ")) >= d
        /\ Len(split(n, " ")) >= d
        /\ \A j \in 1..d : split(n, " ")[j] = split(query, " ")[j] }

\* The depths at which at most one candidate remains.
Deciding(query, pool) ==
    { d \in 1..Len(split(query, " ")) : Cardinality(Candidates(query, pool, d)) <= 1 }

\* C19: match_ingredient returns the one candidate of the first depth at
\* which one candidate remains, and none when that depth has no candidate
\* or no depth has fewer than two; what it returns is a name of the pool.
C19_PrefixDisambiguation ==
    IngredientDone =>
        LET pool == DOMAIN call.ing_dict
            ds == Deciding(call.ing, pool)
            d1 == CHOOSE d \in ds : \A e \in ds : d <= e
        IN  /\ (ds # {} /\ Cardinality(Candidates(call.ing, pool, d1)) = 1) =>
                  /\ ~result.value.none
                  /\ result.value.name \in Candidates(call.ing, pool, d1)
            /\ (ds = {} \/ Candidates(call.ing, pool, d1) = {}) => result.value.none
            /\ ~result.value.none => result.value.name \in pool

\* The first word left two candidates, the second one; the name returned is
\* not the query.
C19_Witness ==
    /\ IngredientDone
    /\ Cardinality(Candidates(call.ing, DOMAIN call.ing_dict, 1)) = 2
    /\ Cardinality(Candidates(call.ing, DOMAIN call.ing_dict, 2)) = 1
    /\ ~result.value.none
    /\ result.value.name # call.ing

\* C27: when exactly one name of the pool has the first word of the query,
\* match_ingredient returns that name, whatever the later words of the two
\* are.
C27_FirstUniqueDepth ==
    IngredientDone =>
        \A n \in DOMAIN call.ing_dict :
           Candidates(call.ing, DOMAIN call.ing_dict, 1) = {n}
              => result.value = Match(n)

\* The name returned has the first word of the query and another second
\* word.
C27_Witness ==
    /\ IngredientDone
    /\ Cardinality(Candidates(call.ing, DOMAIN call.ing_dict, 1)) = 1
    /\ ~result.value.none
    /\ Len(split(call.ing, " ")) >= 2
    /\ Len(split(result.value.name, " ")) >= 2
    /\ split(call.ing, " ")[2] # split(result.value.name, " ")[2]

----------------------------------------------------------------------------
(* Properties of equivalent *)

TupleDone ==
    /\ call.op = "equivalent"
    /\ call.ob_form.type = "FormulationTuple"
    /\ result.raised # "pending"

ClassDone ==
    /\ call.op = "equivalent"
    /\ call.ob_form.type = "EquivalenceClass"
    /\ result.raised # "pending"

\* The FormulationTuples of the class for which equivalent returns true
TrueMembers ==
    { ft \in DOMAIN result.members :
        result.members[ft].raised = NoError /\ result.members[ft].value }

\* C15: equivalent of a class and B is true exactly when equivalent is true
\* for at least one FormulationTuple of the class; the form_tuples are those
\* the class has in the registry, the absorbed ones among them.
C15_AnyMember ==
    ClassDone =>
        /\ call.ob_form.form_tuples = registry.objects[call.ob_form.self].form_tuples
        /\ (result.raised = NoError /\ result.value = TRUE) <=> TrueMembers # {}

\* What the list comprehension under any() gives: the call returns when
\* equivalent returns for every FormulationTuple of the class, and what it
\* returns is true exactly when one of them is equivalent to B.
AnyMemberWhenAllReturn ==
    ClassDone =>
        /\ call.ob_form.form_tuples = registry.objects[call.ob_form.self].form_tuples
        /\ (\A ft \in DOMAIN result.members : result.members[ft].raised = NoError)
              <=> result.raised = NoError
        /\ result.raised = NoError => (result.value = TRUE <=> TrueMembers # {})

\* The class has absorbed another; of its two FormulationTuples one is
\* equivalent to B and one is not.
MergedClassAnswers ==
    /\ ClassDone
    /\ "merge" \in taken
    /\ result.raised = NoError
    /\ result.value = TRUE
    /\ \E ft \in DOMAIN result.members : ~result.members[ft].value

\* One FormulationTuple of the class is equivalent to B and the comparison
\* of another one raises.
RaisesThoughEquivalent ==
    ClassDone /\ result.raised # NoError /\ TrueMembers # {}

\* C16: equivalent of a FormulationTuple and B is true exactly when
\* equivalent_form of the two form/route texts is true and
\* equivalent_composition of the two compositions is true; and
\* equivalent_composition is false when it has gone through every B-side
\* tuple and a name is left in ob_data.
C16_FormAndComposition ==
    TupleDone =>
        /\ result.raised = NoError =>
              (result.value = TRUE <=>
                 /\ result.form.raised = NoError /\ result.form.value
                 /\ result.composition.raised = NoError /\ result.composition.value)
        /\ ( /\ result.composition.raised = NoError
             /\ result.composition.done = Len(comp_map(call.ndc_form))
             /\ result.composition.left # {} )
              => result.composition.value = FALSE

\* Every B-side ingredient found its strength, the form and route agree,
\* and an A-side ingredient is left over.
C16_Witness ==
    /\ TupleDone
    /\ result.raised = NoError
    /\ result.value = FALSE
    /\ result.form.value
    /\ result.composition.done = Len(comp_map(call.ndc_form))
    /\ result.composition.left # {}

\* More than one name of the pool agrees with the query on every word of
\* the query.
Tied(query, pool) ==
    Cardinality(Candidates(query, pool, Len(split(query, " ")))) > 1

\* C20: a call of match_ingredient that finds more than one name of the
\* pool agreeing with the query on all its words returns None, also when
\* one of them is the query itself; equivalent_composition then returns
\* false and raises nothing, and so does equivalent when it got that far.
C20_TieIsNoMatch ==
    TupleDone =>
        \A i \in 1..Len(result.composition.calls) :
           LET c == result.composition.calls[i]
           IN  Tied(c.ing, c.pool) =>
                 /\ c.found.none
                 /\ result.composition.raised = NoError
                 /\ result.composition.value = FALSE
                 /\ (result.form.raised = NoError /\ result.form.value) =>
                       (result.raised = NoError /\ result.value = FALSE)

\* The pool held the query itself and a longer name that starts with it.
C20_Witness ==
    /\ TupleDone
    /\ result.raised = NoError
    /\ result.value = FALSE
    /\ result.form.value
    /\ \E i \in 1..Len(result.composition.calls) :
          LET c == result.composition.calls[i]
          IN  Tied(c.ing, c.pool) /\ c.ing \in c.pool /\ c.found.none

----------------------------------------------------------------------------
(* Properties of equivalent_composition *)

\* The names match_ingredient found in the calls equivalent_composition made
FoundNames(calls) == [i \in 1..Len(calls) |-> calls[i].found.name]

\* Every B-side tuple found a name of its own.
EachFoundItsOwn(calls) ==
    /\ Len(calls) = Len(comp_map(call.ndc_form))
    /\ \A i \in 1..Len(calls) : ~calls[i].found.none
    /\ \A i, j \in 1..Len(calls) :
          i # j => FoundNames(calls)[i] # FoundNames(calls)[j]

CompositionTrue ==
    /\ TupleDone
    /\ result.composition.raised = NoError
    /\ result.composition.value

\* C21: when equivalent_composition returns true, every B-side tuple has
\* consumed an A-side entry of its own, every A-side entry has been
\* consumed, and so the two sides have the same number of entries.
C21_OneToOne ==
    CompositionTrue =>
        /\ EachFoundItsOwn(result.composition.calls)
        /\ Len(comp_map(call.ob_form)) = Len(comp_map(call.ndc_form))

\* What dict(ob_comps) leaves of it: the B-side tuples are matched
\* one-to-one with the names of the A side, not with its entries.
OneToOneOnNames ==
    CompositionTrue =>
        /\ EachFoundItsOwn(result.composition.calls)
        /\ Range(FoundNames(result.composition.calls))
             = { comp_map(call.ob_form)[i][1] :
                   i \in 1..Len(comp_map(call.ob_form)) }

\* The A side names one ingredient twice and the comparison is true.
TrueThoughNamedTwice ==
    /\ CompositionTrue
    /\ Len(comp_map(call.ob_form)) > Len(comp_map(call.ndc_form))

\* C24: equivalent of a FormulationTuple and a B record completes with true
\* or false and raises nothing.
C24_NeverRaises ==
    TupleDone => (result.raised = NoError /\ result.value \in BOOLEAN)

\* The errors equivalent raises are those of its two comparisons: the one
\* of equivalent_form, and the one of equivalent_composition when the form
\* and route agree.
RaisesWithItsParts ==
    TupleDone =>
        (result.raised # NoError <=>
           \/ result.form.raised # NoError
           \/ /\ result.form.value
              /\ result.composition.raised # NoError)

\* The ingredient, form and route agree and the unit of the B record has
\* the denominator zero.
RaisesOnUnit ==
    /\ TupleDone
    /\ result.raised = "ZeroDivisionError"
    /\ re_search_num(call.ndc_form.fields[4]).matched
    /\ float(re_search_num(call.ndc_form.fields[4]).group).n = 0

----------------------------------------------------------------------------
(* Properties of equivalent_strength *)

StrengthDone ==
    /\ call.op = "equivalent_strength"
    /\ result.raised # "pending"

\* The numbers a text has: the spans num_re matches that do not start
\* inside a number.
NumberSpans(text) ==
    { sp \in (1..Len(text)) \X (1..Len(text)) :
        /\ num_re(text, sp[1]) = sp[2]
        /\ sp[1] = 1 \/ ~(IsDigit(text[sp[1] - 1]) \/ text[sp[1] - 1] = ".") }

Group(text, sp) == SubSeq(text, sp[1], sp[2])

\* The ratios X/Y a text has: Y is a number right after a slash and X the
\* last number before that slash.
Ratios(text) ==
    { r \in [x : NumberSpans(text), y : NumberSpans(text)] :
        /\ r.y[1] > 1 /\ text[r.y[1] - 1] = "/"
        /\ r.x[2] < r.y[1] - 1
        /\ \A sp \in NumberSpans(text) : sp[2] < r.y[1] - 1 => sp[2] <= r.x[2] }

\* The B ratio: the B number divided by the number its unit has, the B
\* number when the unit has none.
BRatio ==
    IF re_search_num(call.ndc_unit).matched
    THEN FloatDiv(float(call.ndc_strength), float(re_search_num(call.ndc_unit).group))
    ELSE float(call.ndc_strength)

CloseRatio(text, r) ==
    /\ float(Group(text, r.y)).n # 0
    /\ isclose(FloatDiv(float(Group(text, r.x)), float(Group(text, r.y))),
               BRatio, RelTol)

\* X is the number the text starts with and Y the number after the last
\* slash that has a number after it.
Leading(text, r) ==
    /\ r.x[1] = 1
    /\ \A q \in Ratios(text) : q.y[1] <= r.y[1]

Holds(text, t) == \E i \in 1..Len(text) : text[i] = t

\* An A-side text with one number and no GM, % or slash
OneNumber(text) == Cardinality(NumberSpans(text)) = 1
TheNumber(text) == float(Group(text, CHOOSE sp \in NumberSpans(text) : TRUE))
PlainStrength(text) ==
    OneNumber(text) /\ ~Holds(text, "GM") /\ ~Holds(text, "%") /\ ~Holds(text, "/")

\* A B-side unit with no ug, no number and no g/ at its start
PlainUnit(unit) ==
    /\ ~Holds(unit, "ug")
    /\ ~re_search_num(unit).matched
    /\ ~(Len(unit) >= 2 /\ unit[1] = "g" /\ unit[2] = "/")

Thousandfold(x, y) == y.n * x.d = 1000 * x.n * y.d

\* C23: for a plain A-side text with the one number n and a plain B-side
\* unit the result is true exactly when n is the B number, so a B number of
\* 1000 * n is no match; with GM in the A-side text a B number of 1000 * n
\* is a match.
C23_ThousandfoldForGrams ==
    (StrengthDone /\ result.raised = NoError) =>
        /\ (PlainStrength(call.ob_strength) /\ PlainUnit(call.ndc_unit)) =>
              (result.value = TRUE <=>
                 TheNumber(call.ob_strength) = float(call.ndc_strength))
        /\ ( /\ OneNumber(call.ob_strength)
             /\ Holds(call.ob_strength, "GM")
             /\ Thousandfold(TheNumber(call.ob_strength), float(call.ndc_strength)) )
              => result.value = TRUE

\* A plain text in milligrams against a thousand times its number: no match.
C23_Witness ==
    /\ StrengthDone
    /\ result.raised = NoError
    /\ PlainStrength(call.ob_strength)
    /\ PlainUnit(call.ndc_unit)
    /\ Thousandfold(TheNumber(call.ob_strength), float(call.ndc_strength))
    /\ result.value = FALSE

\* The positions of the numbers that come right after a slash
DenominatorPositions(text) ==
    UNION { sp[1]..sp[2] :
              sp \in { x \in NumberSpans(text) : x[1] > 1 /\ text[x[1] - 1] = "/" } }

\* C29: none of the numbers the loop of equivalent_strength compares has a
\* digit of a number that comes right after a slash in the A-side text.
C29_NoDenominatorDigit ==
    StrengthDone =>
        \A k \in 1..Len(result.spans) :
           (result.spans[k][1]..result.spans[k][2])
              \cap DenominatorPositions(call.ob_strength) = {}

\* The last digits of a denominator are the B number, no other number of
\* the text is, and the result is true.
DenominatorDigitDecides ==
    /\ StrengthDone
    /\ result.raised = NoError
    /\ result.value = TRUE
    /\ \E k \in 1..Len(result.spans) :
          /\ result.spans[k][1] \in DenominatorPositions(call.ob_strength)
          /\ Group(call.ob_strength, result.spans[k]) = call.ndc_strength
    /\ \A sp \in NumberSpans(call.ob_strength) :
          Group(call.ob_strength, sp) # call.ndc_strength
    /\ Ratios(call.ob_strength) # {}
    /\ \A r \in Ratios(call.ob_strength) : ~CloseRatio(call.ob_strength, r)

----------------------------------------------------------------------------
(* Properties of parse_strengths *)

ParseDone == call.op = "parse_strengths" /\ result.raised # "pending"

\* The strength tokens of a group: the group is its tokens joined by ", ".
GroupTokens(group) ==
    [i \in 1..Len(split(group, ",")) |-> strip(split(group, ",")[i])]

RECURSIVE Flatten(_)
Flatten(lists) ==
    IF lists = <<>> THEN <<>> ELSE Head(lists) \o Flatten(Tail(lists))

TokensOf(groups) == Flatten([g \in 1..Len(groups) |-> GroupTokens(groups[g])])

\* parse_strengths regroups: more than one ingredient, and the tokens are a
\* multiple of the ingredients other than once as many.  The tokens drawn
\* have no comma and no parenthesis, so neither the transposition nor the
\* parenthesised form applies.
Regroups ==
    /\ ParseDone
    /\ call.exp_len > 1
    /\ Len(call.elements) % call.exp_len = 0
    /\ Len(call.elements) # call.exp_len

\* C28: when parse_strengths regroups n tokens into exp_len groups it
\* returns exp_len groups that hold every token once, in the order of the
\* text.
C28_RegroupKeepsTokens ==
    Regroups =>
        /\ result.raised = NoError
        /\ Len(result.value) = call.exp_len
        /\ TokensOf(result.value) = call.elements

\* What the slices elts[i:(i + exp_len)] taken every len(elts) // exp_len
\* give: exp_len groups, which hold every token once when the step is
\* exp_len, that is for exp_len * exp_len tokens.
RegroupKeepsTokensOfSquare ==
    Regroups =>
        /\ result.raised = NoError
        /\ Len(result.value) = call.exp_len
        /\ Len(call.elements) = call.exp_len * call.exp_len
              => TokensOf(result.value) = call.elements

\* Six tokens for two ingredients: the groups hold four of them.
RegroupDropsTokens ==
    /\ Regroups
    /\ Len(call.elements) = 6
    /\ call.exp_len = 2
    /\ Len(TokensOf(result.value)) = 4

----------------------------------------------------------------------------
(* Properties of the steps of the registry *)

\* C25: an ingest that finds both keys of the row unowned creates exactly
\* one new live class, whose members are exactly the two keys and whose id
\* is greater than every id allocated before; every instance that existed
\* keeps its id and its members, the live classes of before stay live under
\* their ids, and every other key keeps its map entry.
C25_NewClass ==
    [][ \A r \in Rows :
          LET ft == row_form_tuple(r)
              at == row_app_tuple(r)
              new == Len(registry.objects) + 1
          IN  (Ingested(r) /\ get(registry, ft) = None
                           /\ get(registry, at) = None) =>
                /\ registry'.raised = NoError
                /\ ret' = new
                /\ Len(registry'.objects) = new
                /\ Live(registry') = Live(registry) \cup {new}
                /\ registry'.objects[new].form_tuples = {ft}
                /\ registry'.objects[new].app_tuples = {at}
                /\ get(registry', ft) = new
                /\ get(registry', at) = new
                /\ \A i \in allocated : registry'.objects[new].eq_id > i
                /\ LiveIds(registry') =
                     LiveIds(registry) \cup {registry'.objects[new].eq_id}
                /\ registry'.objects[new].eq_id \notin LiveIds(registry)
                /\ \A o \in 1..Len(registry.objects) :
                     registry'.objects[o] = registry.objects[o]
                /\ \A c \in Live(registry) :
                     ODValue(registry'.eq_classes, registry.objects[c].eq_id) = c
                /\ \A k \in (FormKeys \cup AppKeys) \ {ft, at} :
                     get(registry', k) = get(registry, k)
      ]_vars

\* A class of two keys has just been created beside a class that an
\* earlier ingest had extended.
C25_Witness ==
    /\ last = "add" /\ branch = "new" /\ ret # None
    /\ Cardinality(Members(registry, ret)) = 2
    /\ \E c \in Live(registry) :
         c # ret /\ Cardinality(Members(registry, c)) >= 3

\* C26: in every ingest step the formulation keys and the application keys
\* of a class that stays live only grow; a class and its id leave the live
\* registry only when the step found the two keys of the row owned by two
\* different classes, and then every key of the class that left belongs to
\* the absorbing class; the number of live classes grows by one when both
\* keys were unowned, falls by one when they had different owners and
\* stays the same otherwise.
C26_ClassesOnlyGrow ==
    [][ \A r \in Rows :
          LET F == get(registry, row_form_tuple(r))
              A == get(registry, row_app_tuple(r))
              Absorbing == F # None /\ A # None /\ F # A
              Change == Cardinality(Live(registry'))
                          - Cardinality(Live(registry))
          IN  Ingested(r) =>
                /\ \A c \in Live(registry) \cap Live(registry') :
                     /\ registry.objects[c].form_tuples
                          \subseteq registry'.objects[c].form_tuples
                     /\ registry.objects[c].app_tuples
                          \subseteq registry'.objects[c].app_tuples
                     /\ registry'.objects[c].eq_id = registry.objects[c].eq_id
                /\ \A c \in Live(registry) \ Live(registry') :
                     /\ Absorbing
                     /\ F \in Live(registry')
                     /\ Members(registry, c) \subseteq Members(registry', F)
                     /\ \A k \in Members(registry, c) : get(registry', k) = F
                /\ \A i \in LiveIds(registry) \ LiveIds(registry') :
                     /\ Absorbing
                     /\ i = registry.objects[A].eq_id
                /\ Absorbing => A \notin Live(registry')
                /\ Change = (IF F = None /\ A = None THEN 1
                             ELSE IF Absorbing THEN -1 ELSE 0)
                /\ Cardinality(LiveIds(registry')) = Cardinality(Live(registry'))
      ]_vars

\* One class is left after an ingest has absorbed the only other one.
C26_Witness ==
    /\ last = "add" /\ branch = "merge"
    /\ Cardinality(LiveIds(registry)) = 1
    /\ Cardinality(allocated \ LiveIds(registry)) = 1
    /\ \A k \in edges : SameLiveClass(registry, k.form_tuple, k.app_tuple)

\* A direct construction has just returned or raised.
ConstructDone == call.op = "EquivalenceClass" /\ last = "construct"

\* A key of the call was owned, or its eq_id was live, before the call.
OwnedKey ==
    \E k \in Range(call.form_tuples) \cup Range(call.app_tuples) :
        has(result.before, k)
LiveId == call.eq_id \in LiveIds(result.before)

\* Every key of the maps of R is mapped to a live class.
MapsToLive(R) ==
    \A k \in (DOMAIN R.form_tuple_classes) \cup (DOMAIN R.app_tuple_classes) :
        get(R, k) \in Live(R)

\* C30: a direct construction with a key that a live class owns or with an
\* eq_id that is live raises and leaves both key-to-class maps, the live
\* classes and the members of every class as they were, so that every key
\* is still mapped to a live class.
C30_FailedConstructionChangesNothing ==
    (ConstructDone /\ (OwnedKey \/ LiveId)) =>
        /\ registry.raised # NoError
        /\ registry.form_tuple_classes = result.before.form_tuple_classes
        /\ registry.app_tuple_classes = result.before.app_tuple_classes
        /\ registry.eq_classes = result.before.eq_classes
        /\ \A o \in 1..Len(result.before.objects) :
             registry.objects[o] = result.before.objects[o]
        /\ MapsToLive(registry)

\* What __init__ gives: the call raises, the live classes and the members of
\* every class of before are unchanged and the keys of before keep their
\* map entries; the maps may have gained keys.
FailedConstructionKeepsClasses ==
    (ConstructDone /\ (OwnedKey \/ LiveId)) =>
        /\ registry.raised # NoError
        /\ registry.eq_classes = result.before.eq_classes
        /\ \A o \in 1..Len(result.before.objects) :
             registry.objects[o] = result.before.objects[o]
        /\ \A k \in FormKeys \cup AppKeys :
             has(result.before, k) => get(registry, k) = get(result.before, k)

\* The call named an unowned key before the owned one: the unowned key is
\* now mapped to the instance that was never made live.
FailedConstructionLeavesKey ==
    /\ ConstructDone /\ OwnedKey /\ ~LiveId
    /\ registry.raised # NoError
    /\ \E k \in Range(call.form_tuples) :
         /\ ~has(result.before, k)
         /\ has(registry, k)
         /\ get(registry, k) \notin Live(registry)

====
